---- MODULE Spec2Model ----
(***************************************************************************)
(* Model of the Gwack CLI: the file-based route discoverer of the Vite     *)
(* plugin (src/src/plugins/gwack.js) and the runtime-config merger         *)
(* (src/src/config/vite.js).                                               *)
(* Further parts: the plugin's hooks (virtual modules, hot updates) and    *)
(* the PHP supervisor (src/src/servers/php.js), and the dev orchestrator   *)
(* that starts the services in turn (src/src/cli/build.js), with its file  *)
(* watcher and the frontend's notifier client                              *)
(* (src/src/shims/entry-point.js), and the build and create commands       *)
(* (src/src/cli/create.js).                                                *)
(*                                                                         *)
(* JavaScript strings are modelled as sequences of one-character strings,  *)
(* so that slicing, prefix/suffix tests and regular-expression             *)
(* replacements are computed character by character as the code does.      *)
(***************************************************************************)
EXTENDS Integers, Sequences, FiniteSets, TLC

VARIABLES
    dirs,        \* directories existing at or under the pages directory (paths; <<>> is pagesDir itself)
    files,       \* regular files existing under the pages directory (paths)
    routes,      \* the route list last returned by generateRoutes
    routesModule,\* the source text last returned by load('virtual:gwack-routes')
    loaded,      \* "no" before load() ran, "yes" after it returned, "threw" after it rejected
    ma, mb, mc,  \* three configuration values handed to deepMerge
    mab, mbc,    \* deepMerge(ma, mb) and deepMerge(mb, mc), once computed
    mleft,       \* deepMerge(deepMerge(ma, mb), mc), once computed
    mright,      \* deepMerge(ma, deepMerge(mb, mc)), once computed
    runtimeConfig,    \* options.runtimeConfig, the object handed to mergeEnvIntoRuntimeGwack
    env,              \* process.env: the variables [name, value] in enumeration order
    viteBuild,        \* options.vite.build (buildOverride)
    buildTopLevel,    \* options.build, the invoking command's override
    cfgStatus,        \* "no" before createViteConfig ran, then "returned" or "threw"
    envMergedRuntime, \* what mergeEnvIntoRuntimeGwack returned
    mergedBuild,      \* the build section createViteConfig resolved
    fileGwack,     \* gwackConfig.gwack, the runtime section of the loaded config file
    plugin,        \* the closure of gwackPlugin(options), undefined before the call
    templates,     \* the template files (shims) that exist, by location
    gwackDir,      \* whether the directory .gwack exists
    entryJs,       \* the content of .gwack/entry.js, undefined while the file is absent
    watched,       \* whether buildStart added the pages directory to the watch files
    routesInGraph, \* whether virtual:gwack-routes is in the bundler's module graph
    hook,          \* the last plugin hook call: its argument, outcome and effects
    phpPc,           \* where startPhpServer stands: idle, called, entry, spawned, resolved, rejected
    phpServerPort,   \* the port startPhpServer was called with
    phpProc,         \* the child process: none, running, failed (never launched), killed
    phpErrorPending, \* an 'error' event of the child process waits to be handled
    phpReported,     \* the 'error' handler printed the launch failure
    phpKillCalled,   \* kill() was called on the returned handle
    indexPhp,        \* the content of .gwack/index.php, undefined while the file is absent
    stderrText,      \* the whole text the launched PHP process writes to stderr
    stream,          \* the chunks of that text not yet handed to the 'data' handler
    records,         \* the records the stderr handler printed: bucket and line
    stdoutLast,      \* the last text the stdout handler printed
    devPc,         \* where devCommand stands: off, start, wss, config, php, phpStarted, vite, listening, watching, ready, exited
    devLog,        \* what devCommand did so far, in order: services started, ready, teardown steps
    devExit,       \* the exit of the process: none, "0", "1", or signal (ended by the signal itself)
    devThrew,      \* the startup step whose exception reached the catch block, none so far
    configFile,    \* the project's config file: absent, valid, or broken (its import throws)
    cliPhpPort,    \* options.phpPort, the command-line flag
    cliPort,       \* options.port, the command-line flag
    cliHost,       \* options.host, the command-line flag
    servePhpPort,  \* gwackConfig.serve.php.port of the loaded config file
    servePort,     \* gwackConfig.serve.frontend.port of the loaded config file
    serveHost,     \* gwackConfig.serve.frontend.host of the loaded config file
    vitePort,      \* resolvedPort, the port Vite is asked to listen on
    viteHost,      \* resolvedHost, the host Vite is asked to listen on
    wssOpen,       \* the WebSocket server exists and is not closed
    viteUp,        \* the Vite dev server listens and is not closed
    watching,      \* the file watcher on server/**/*.php is set up
    sigintHandler, \* the SIGINT handler is registered
    wsClients,     \* wss.clients: the readyState of each client's socket (none: no socket)
    wsInbox,       \* the messages sent to each client and not yet handled by its onmessage
    wsSent,        \* every message the watcher handlers sent: event, receiver, text
    watchEvents,   \* the watcher events so far: kind, file, the clients open at that moment
    handled,       \* what each frontend did with each message it handled
    buildPc,       \* where buildCommand stands: idle, cleaned, bundled, server, vendor, composer, done
    buildExit,     \* how the last buildCommand ended: none, ok, "1"
    projHas,       \* the entries of the project directory among server, vendor, composer.json, composer.lock
    shimsHas,      \* the entry scripts the CLI ships among prod-index.php, index.php
    outTree,       \* the entries of the base output directory
    buildsDone,    \* the number of builds run into the output directory
    createPc,      \* where createCommand stands: idle, structure, written, done
    createExit,    \* the exit of createCommand: none, "1"
    createReport,  \* what createCommand reported: none, success, failure
    createShims,   \* the template files that exist, by location
    projFiles      \* the files of the new project directory

routeVars == <<dirs, files, routes, routesModule, loaded>>

mergeVars == <<ma, mb, mc, mab, mbc, mleft, mright>>

envVars == <<runtimeConfig, env, viteBuild, buildTopLevel, cfgStatus,
             envMergedRuntime, mergedBuild>>

pluginVars == <<fileGwack, plugin, templates, gwackDir, entryJs, watched,
                routesInGraph, hook>>

phpVars == <<phpPc, phpServerPort, phpProc, phpErrorPending, phpReported, phpKillCalled,
             indexPhp, stderrText, stream, records, stdoutLast>>

devInputs == <<configFile, cliPhpPort, cliPort, cliHost>>

devConfig == <<servePhpPort, servePort, serveHost>>

devVars == <<devPc, devLog, devExit, devThrew, devInputs, devConfig, vitePort, viteHost,
             wssOpen, viteUp, watching, sigintHandler>>

notifyVars == <<wsClients, wsInbox, wsSent, watchEvents, handled>>

buildVars == <<buildPc, buildExit, projHas, shimsHas, outTree, buildsDone>>

createVars == <<createPc, createExit, createReport, createShims, projFiles>>

toolVars == <<notifyVars, buildVars, createVars>>

vars == <<routeVars, mergeVars, envVars, pluginVars, phpVars, devVars, toolVars>>

----------------------------------------------------------------------------
(* Bounds of the model.                                                    *)

\* Largest number of regular files in a generated pages tree.
MaxFiles == 2

\* Largest number of variables, GWACK_JSON aside, in a generated environment.
MaxVars == 2

\* Largest number of lines the PHP process writes to stderr.
MaxLines == 2

\* Largest number of events the file watcher emits.
MaxEvents == 2

\* Largest number of runs of the build command into one output directory.
MaxBuilds == 2

----------------------------------------------------------------------------
(* String helpers (JavaScript String.prototype / path semantics).          *)

\* s.startsWith(p)
startsWith(s, p) ==
    /\ Len(p) <= Len(s)
    /\ SubSeq(s, 1, Len(p)) = p

\* s.endsWith(p)
endsWith(s, p) ==
    /\ Len(p) <= Len(s)
    /\ SubSeq(s, Len(s) - Len(p) + 1, Len(s)) = p

\* s.slice(1, -1)
sliceInner(s) == SubSeq(s, 2, Len(s) - 1)

\* s.replace(/<from>/g, to) for a one-character pattern; also split(from).join(to)
replaceAll(s, from, to) ==
    [i \in 1..Len(s) |-> IF s[i] = from THEN to ELSE s[i]]

\* s.replace(/^\./, '')
stripLeadingDot(s) ==
    IF Len(s) > 0 /\ s[1] = "." THEN Tail(s) ELSE s

\* The words the code uses.
sVue   == <<".", "v", "u", "e">>
sIndex == <<"i", "n", "d", "e", "x">>
sSlash == <<"/">>
sPages == <<"p", "a", "g", "e", "s", "/">>

\* path.join(prefix, entry) on POSIX, for a prefix built by earlier joins and
\* a directory entry (never '.', '..' or a name holding '/').
join(prefix, entry) ==
    IF prefix = <<>> THEN entry ELSE prefix \o sSlash \o entry

\* path.basename(filename, '.vue') for a name without '/'
basename(filename, ext) ==
    IF endsWith(filename, ext)
    THEN SubSeq(filename, 1, Len(filename) - Len(ext))
    ELSE filename

----------------------------------------------------------------------------
(* The pages directory trees the model draws from.                         *)

nUsers   == <<"u", "s", "e", "r", "s">>
nId      == <<"[", "i", "d", "]">>
fIndex   == sIndex \o sVue
fAbout   == <<"a", "b", "o", "u", "t">> \o sVue
fId      == nId \o sVue
fUsers   == nUsers \o sVue
fEdit    == <<"e", "d", "i", "t">> \o sVue
fNotes   == <<"n", "o", "t", "e", "s", ".", "m", "d">>

DirNames  == {nUsers, nId, sIndex}
FileNames == {fIndex, fAbout, fId, fUsers, fEdit, fNotes}

\* The directory-listing order readdir may return: the order of this tuple
\* or its reverse (the order is the file system's choice).
NameOrder == <<fAbout, fEdit, fId, nId, sIndex, fIndex, fNotes, nUsers, fUsers>>

Reverse(s) == [i \in 1..Len(s) |-> s[Len(s) + 1 - i]]

ListingOrders == {NameOrder, Reverse(NameOrder)}

\* Directories a tree may hold below the pages directory.
DirPaths ==
    { <<nUsers>>, <<nUsers, nId>>, <<sIndex>>, <<nId>>, <<sIndex, sIndex>> }

FilePaths == { Append(d, f) : d \in DirPaths \cup {<<>>}, f \in FileNames }

\* The subsets of S of at most k elements.
RECURSIVE SubsetsUpTo(_, _)
SubsetsUpTo(S, k) ==
    IF k = 0 THEN {{}}
    ELSE LET prev == SubsetsUpTo(S, k - 1) IN
         prev \cup { s \cup {x} : s \in prev, x \in S }

\* The proper ancestors of a path, the pages directory included.
Ancestors(p) == { SubSeq(p, 1, k) : k \in 0..(Len(p) - 1) }

\* A well-formed tree: every entry's ancestors are directories of the tree.
IsTree(ds, fs) ==
    /\ \A d \in ds : Ancestors(d) \subseteq ds
    /\ \A f \in fs : Ancestors(f) \subseteq ds

\* The tree of the specification's worked example:
\* index.vue, about.vue, users/[id].vue, users/index.vue
ExampleDirs  == { <<>>, <<nUsers>> }
ExampleFiles == { <<fIndex>>, <<fAbout>>, <<nUsers, fId>>, <<nUsers, fIndex>> }

----------------------------------------------------------------------------
(* generateRoutePath, scanDirectory, generateRoutes                        *)

\* generateRoutePath with the dynamic-route branch forgetting the prefix.
generateRoutePath_dropPrefix(prefix, filename) ==
    LET name == basename(filename, sVue) IN
    IF name = sIndex
    THEN (IF prefix = <<>> THEN sSlash ELSE sSlash \o prefix)
    ELSE IF startsWith(name, <<"[">>) /\ endsWith(name, <<"]">>)
    THEN <<"/", ":">> \o sliceInner(name)
    ELSE IF prefix = <<>>
    THEN sSlash \o name
    ELSE sSlash \o prefix \o sSlash \o name

generateRoutePath(prefix, filename) ==
    LET name == basename(filename, sVue) IN
    IF name = sIndex
    THEN (IF prefix = <<>> THEN sSlash ELSE sSlash \o prefix)
    ELSE IF startsWith(name, <<"[">>) /\ endsWith(name, <<"]">>)
    THEN LET param == sliceInner(name) IN
         IF prefix = <<>>
         THEN <<"/", ":">> \o param
         ELSE sSlash \o prefix \o <<"/", ":">> \o param
    ELSE IF prefix = <<>>
    THEN sSlash \o name
    ELSE sSlash \o prefix \o sSlash \o name

\* routeName without the removal of the leading '.'.
routeName_keepDot(routePath) ==
    LET n == replaceAll(routePath, "/", ".") IN
    IF n = <<>> THEN sIndex ELSE n

\* routePath.replace(/\//g, '.').replace(/^\./, '') || 'index'
routeName(routePath) ==
    LET n == stripLeadingDot(replaceAll(routePath, "/", ".")) IN
    IF n = <<>> THEN sIndex ELSE n

\* path.relative(pagesDir, fullPath) for a path below pagesDir
RECURSIVE relative(_)
relative(fullPath) ==
    IF fullPath = <<>> THEN <<>>
    ELSE IF Len(fullPath) = 1 THEN fullPath[1]
    ELSE fullPath[1] \o sSlash \o relative(Tail(fullPath))

\* The record pushed for one .vue file.
routeOf(prefix, entry, fullPath) ==
    LET routePath  == generateRoutePath(prefix, entry)
        normalized == replaceAll(relative(fullPath), "\\", "/")
    IN  [ path       |-> routePath,
          name       |-> routeName(routePath),
          importPath |-> sPages \o normalized ]

\* readdir(dir), in the listing order ord
readdir(ds, fs, dir, ord) ==
    SelectSeq(ord, LAMBDA n : Append(dir, n) \in ds \cup fs)

\* scanDirectory(dir, prefix): the routes pushed by the loop over the entries
\* not yet visited, subdirectories recursed depth-first.
RECURSIVE scanEntries(_, _, _, _, _, _)
scanEntries(ds, fs, dir, prefix, entries, ord) ==
    IF entries = <<>> THEN <<>>
    ELSE
      LET entry    == Head(entries)
          fullPath == Append(dir, entry)
          here ==
            IF fullPath \in ds
            THEN scanEntries(ds, fs, fullPath, join(prefix, entry),
                             readdir(ds, fs, fullPath, ord), ord)
            ELSE IF endsWith(entry, sVue)
            THEN << routeOf(prefix, entry, fullPath) >>
            ELSE <<>>
      IN here \o scanEntries(ds, fs, dir, prefix, Tail(entries), ord)

\* What generateRoutes settles with: the route list, or a rejection.
Returned(rs) == [threw |-> FALSE, routes |-> rs]
Thrown       == [threw |-> TRUE,  routes |-> <<>>]

\* scanDirectory(dir, prefix): readdir rejects with ENOENT for a directory
\* that does not exist.
scanDirectory(ds, fs, dir, prefix, ord) ==
    IF dir \notin ds
    THEN Thrown
    ELSE Returned(scanEntries(ds, fs, dir, prefix, readdir(ds, fs, dir, ord), ord))

\* generateRoutes without the existsSync(pagesDir) guard.
generateRoutes_noGuard(ds, fs, ord) ==
    scanDirectory(ds, fs, <<>>, <<>>, ord)

generateRoutes(ds, fs, ord) ==
    IF <<>> \notin ds
    THEN Returned(<<>>)
    ELSE scanDirectory(ds, fs, <<>>, <<>>, ord)

\* JSON.stringify of a string without quotes, backslashes or control characters
jsonString(s) == <<"\"">> \o s \o <<"\"">>

\* The lines load('virtual:gwack-routes') joins with '\n'.
routesSource(rs) ==
    << [kind |-> "open", path |-> <<>>, name |-> <<>>, component |-> <<>>] >>
    \o [i \in 1..Len(rs) |->
          [kind |-> "route",
           path |-> jsonString(rs[i].path),
           name |-> jsonString(rs[i].name),
           component |-> jsonString(rs[i].importPath)]]
    \o << [kind |-> "close", path |-> <<>>, name |-> <<>>, component |-> <<>>] >>

----------------------------------------------------------------------------
(* JavaScript values of a configuration: null, booleans, numbers, strings, *)
(* arrays (a: the elements, o: own properties set on the array object)     *)
(* and plain objects (o: key -> value).  Undefined is what a missing       *)
(* property or an unset variable reads as.                                 *)

Undefined == [t |-> "undefined"]
Null      == [t |-> "null"]
Bool(b)   == [t |-> "bool", b |-> b]
Num(n)    == [t |-> "num", n |-> n]
Str(s)    == [t |-> "str", s |-> s]
Arr(a)    == [t |-> "arr", a |-> a, o |-> <<>>]
Obj(o)    == [t |-> "obj", o |-> o]

EmptyObj == Obj(<<>>)

\* isObject(v): v && typeof v === 'object' && !Array.isArray(v)
isObject(v) == v.t = "obj"

\* Array.isArray(v)
isArray(v) == v.t = "arr"

\* Object.keys(v) of an object (or the own property names set on an array)
Keys(v) == DOMAIN v.o

\* deepMerge with the keys of b that a lacks left out.
RECURSIVE deepMerge_dropNewKeys(_, _)
deepMerge_dropNewKeys(a, b) ==
    IF isArray(a) /\ isArray(b)
    THEN Arr(a.a \o b.a)
    ELSE IF isObject(a) /\ isObject(b)
    THEN Obj([k \in Keys(a) |->
                IF k \in Keys(b)
                THEN deepMerge_dropNewKeys(a.o[k], b.o[k])
                ELSE a.o[k]])
    ELSE b

RECURSIVE deepMerge(_, _)
deepMerge(a, b) ==
    IF isArray(a) /\ isArray(b)
    THEN Arr(a.a \o b.a)
    ELSE IF isObject(a) /\ isObject(b)
    THEN Obj([k \in Keys(a) \cup Keys(b) |->
                IF k \in Keys(b)
                THEN (IF k \in Keys(a) THEN deepMerge(a.o[k], b.o[k]) ELSE b.o[k])
                ELSE a.o[k]])
    ELSE b

\* Keys and values the configuration inputs are built from.
kA == <<"a">>
kB == <<"b">>
kC == <<"c">>

\* The configuration values handed to deepMerge: nested objects, arrays and
\* scalars, with values of different kinds under the same key.
MergeValues ==
    { EmptyObj,
      Obj(kA :> Num(1)),
      Obj(kA :> Num(2) @@ kB :> Str(<<"x">>)),
      Obj(kA :> Arr(<<Num(1)>>)),
      Obj(kA :> Arr(<<Num(2)>>)),
      Obj(kA :> Obj(kB :> Num(1))),
      Obj(kA :> Obj(kC :> Num(3)) @@ kB :> Null),
      Obj(kA :> Obj(kB :> Arr(<<Num(1)>>))),
      Obj(kA :> Obj(kB :> Obj(kC :> Bool(TRUE)))),
      Arr(<<>>),
      Arr(<<Num(1)>>),
      Arr(<<Str(<<"x">>), Num(2)>>),
      Num(5),
      Null }

----------------------------------------------------------------------------
(* Text helpers of the environment translation.                            *)

UpperAlpha == <<"A", "B", "C", "D", "E", "F", "G", "H", "I", "J", "K", "L", "M",
                "N", "O", "P", "Q", "R", "S", "T", "U", "V", "W", "X", "Y", "Z">>
LowerAlpha == <<"a", "b", "c", "d", "e", "f", "g", "h", "i", "j", "k", "l", "m",
                "n", "o", "p", "q", "r", "s", "t", "u", "v", "w", "x", "y", "z">>
DigitChars == <<"0", "1", "2", "3", "4", "5", "6", "7", "8", "9">>

Range(f) == { f[i] : i \in DOMAIN f }

\* c.toLowerCase() / c.toUpperCase() of one character
toLowerChar(c) ==
    IF c \in Range(UpperAlpha)
    THEN LowerAlpha[CHOOSE i \in 1..26 : UpperAlpha[i] = c]
    ELSE c

toUpperChar(c) ==
    IF c \in Range(LowerAlpha)
    THEN UpperAlpha[CHOOSE i \in 1..26 : LowerAlpha[i] = c]
    ELSE c

toLowerCase(s) == [i \in 1..Len(s) |-> toLowerChar(s[i])]

\* the regular-expression class \w
isWordChar(c) ==
    c \in Range(UpperAlpha) \cup Range(LowerAlpha) \cup Range(DigitChars) \cup {"_"}

\* lower.replace(/[_-](\w)/g, (_, c) => c.toUpperCase())
RECURSIVE camelize(_)
camelize(s) ==
    IF s = <<>> THEN <<>>
    ELSE IF s[1] \in {"_", "-"} /\ Len(s) >= 2 /\ isWordChar(s[2])
    THEN <<toUpperChar(s[2])>> \o camelize(SubSeq(s, 3, Len(s)))
    ELSE <<s[1]>> \o camelize(Tail(s))

normalizeKey(k) == camelize(toLowerCase(k))

\* suffix.split('__'): the pieces between the occurrences of '__', left to right
RECURSIVE splitDouble(_, _)
splitDouble(s, cur) ==
    IF s = <<>> THEN <<cur>>
    ELSE IF Len(s) >= 2 /\ s[1] = "_" /\ s[2] = "_"
    THEN <<cur>> \o splitDouble(SubSeq(s, 3, Len(s)), <<>>)
    ELSE splitDouble(Tail(s), Append(cur, s[1]))

\* .filter(Boolean) on an array of strings
filterNonEmpty(parts) == SelectSeq(parts, LAMBDA q : q # <<>>)

\* v.trim(), for the space character
RECURSIVE trimLeft(_)
trimLeft(s) == IF s # <<>> /\ Head(s) = " " THEN trimLeft(Tail(s)) ELSE s

trim(s) == Reverse(trimLeft(Reverse(trimLeft(s))))

isDigits(s) == s # <<>> /\ \A i \in 1..Len(s) : s[i] \in Range(DigitChars)

digitValue(c) == (CHOOSE i \in 1..10 : DigitChars[i] = c) - 1

RECURSIVE digitsValue(_)
digitsValue(s) ==
    IF s = <<>> THEN 0
    ELSE 10 * digitsValue(SubSeq(s, 1, Len(s) - 1)) + digitValue(s[Len(s)])

\* !isNaN(v) && v.trim() !== '', for the decimal integer literals (an optional
\* sign and digits, spaces around them); the values drawn hold no other
\* numeric form (fractions, exponents, hexadecimal, Infinity).
isNumericString(v) ==
    LET t == trim(v) IN
    /\ t # <<>>
    /\ \/ isDigits(t)
       \/ (t[1] \in {"-", "+"} /\ isDigits(Tail(t)))

\* Number(v) of such a literal
toNumber(v) ==
    LET t == trim(v) IN
    IF t[1] = "-" THEN 0 - digitsValue(Tail(t))
    ELSE IF t[1] = "+" THEN digitsValue(Tail(t))
    ELSE digitsValue(t)

----------------------------------------------------------------------------
(* JSON.parse, for texts without white space, escapes, fractions or        *)
(* exponents: null, true, false, integers, strings, arrays, objects.       *)
(* A parse step yields the value and the text left; ok = FALSE is a        *)
(* SyntaxError.                                                            *)

ParseFail == [ok |-> FALSE, v |-> Undefined, rest |-> <<>>]
ParseOk(v, rest) == [ok |-> TRUE, v |-> v, rest |-> rest]

sNull  == <<"n", "u", "l", "l">>
sTrue  == <<"t", "r", "u", "e">>
sFalse == <<"f", "a", "l", "s", "e">>

\* the characters of a string literal up to its closing quote
RECURSIVE parseChars(_, _)
parseChars(s, acc) ==
    IF s = <<>> THEN ParseFail
    ELSE IF Head(s) = "\"" THEN ParseOk(Str(acc), Tail(s))
    ELSE IF Head(s) = "\\" THEN ParseFail
    ELSE parseChars(Tail(s), Append(acc, Head(s)))

\* the longest run of digits at the head of s
RECURSIVE digitRun(_)
digitRun(s) ==
    IF s # <<>> /\ Head(s) \in Range(DigitChars)
    THEN <<Head(s)>> \o digitRun(Tail(s))
    ELSE <<>>

\* a JSON integer: '-'? ( '0' | [1-9][0-9]* )
parseNumber(s) ==
    LET neg  == s # <<>> /\ Head(s) = "-"
        body == IF neg THEN Tail(s) ELSE s
        ds   == digitRun(body)
    IN  IF ds = <<>> \/ (Len(ds) > 1 /\ ds[1] = "0")
        THEN ParseFail
        ELSE ParseOk(Num(IF neg THEN 0 - digitsValue(ds) ELSE digitsValue(ds)),
                     SubSeq(body, Len(ds) + 1, Len(body)))

RECURSIVE parseValue(_)
RECURSIVE parseElements(_, _)
RECURSIVE parseMembers(_, _)

parseValue(s) ==
    IF s = <<>> THEN ParseFail
    ELSE IF startsWith(s, sNull)  THEN ParseOk(Null, SubSeq(s, 5, Len(s)))
    ELSE IF startsWith(s, sTrue)  THEN ParseOk(Bool(TRUE), SubSeq(s, 5, Len(s)))
    ELSE IF startsWith(s, sFalse) THEN ParseOk(Bool(FALSE), SubSeq(s, 6, Len(s)))
    ELSE IF Head(s) = "\"" THEN parseChars(Tail(s), <<>>)
    ELSE IF Head(s) = "-" \/ Head(s) \in Range(DigitChars) THEN parseNumber(s)
    ELSE IF Head(s) = "["
    THEN (IF Len(s) >= 2 /\ s[2] = "]"
          THEN ParseOk(Arr(<<>>), SubSeq(s, 3, Len(s)))
          ELSE parseElements(Tail(s), <<>>))
    ELSE IF Head(s) = "{"
    THEN (IF Len(s) >= 2 /\ s[2] = "}"
          THEN ParseOk(EmptyObj, SubSeq(s, 3, Len(s)))
          ELSE parseMembers(Tail(s), <<>>))
    ELSE ParseFail

\* element (',' element)* ']'
parseElements(s, acc) ==
    LET e == parseValue(s) IN
    IF ~e.ok \/ e.rest = <<>> THEN ParseFail
    ELSE IF Head(e.rest) = "]" THEN ParseOk(Arr(Append(acc, e.v)), Tail(e.rest))
    ELSE IF Head(e.rest) = "," THEN parseElements(Tail(e.rest), Append(acc, e.v))
    ELSE ParseFail

\* string ':' value (',' string ':' value)* '}' ; a repeated key keeps the last value
parseMembers(s, acc) ==
    IF s = <<>> \/ Head(s) # "\"" THEN ParseFail
    ELSE
      LET k == parseChars(Tail(s), <<>>) IN
      IF ~k.ok \/ k.rest = <<>> \/ Head(k.rest) # ":" THEN ParseFail
      ELSE
        LET e == parseValue(Tail(k.rest)) IN
        IF ~e.ok \/ e.rest = <<>> THEN ParseFail
        ELSE
          LET acc2 == (k.v.s :> e.v) @@ acc IN
          IF Head(e.rest) = "}" THEN ParseOk(Obj(acc2), Tail(e.rest))
          ELSE IF Head(e.rest) = "," THEN parseMembers(Tail(e.rest), acc2)
          ELSE ParseFail

\* JSON.parse(text): the whole text must be one value
JSONparse(text) ==
    LET r == parseValue(text) IN
    IF r.ok /\ r.rest = <<>> THEN r ELSE ParseFail

coerce(v) ==
    IF v = sTrue THEN Bool(TRUE)
    ELSE IF v = sFalse THEN Bool(FALSE)
    ELSE IF v = sNull THEN Null
    ELSE IF isNumericString(v) THEN Num(toNumber(v))
    ELSE LET parsed == JSONparse(v) IN
         IF parsed.ok /\ parsed.v.t \in {"obj", "arr", "null"}
         THEN parsed.v
         ELSE Str(v)

----------------------------------------------------------------------------
(* mergeEnvIntoRuntimeGwack and its helpers.                               *)

\* Variable names and values of the environments drawn.
vJson == <<"G", "W", "A", "C", "K", "_", "J", "S", "O", "N">>
vServePhpPort == <<"G", "W", "A", "C", "K", "_", "S", "E", "R", "V", "E", "_", "_", "P", "H", "P", "_", "_", "P", "O", "R", "T">>
vNestedAB == <<"G", "W", "A", "C", "K", "_", "_", "_", "A", "_", "_", "B">>
vNestedA == <<"G", "W", "A", "C", "K", "_", "_", "_", "A">>
vFlatA == <<"G", "W", "A", "C", "K", "_", "A">>
vDocAB == <<"G", "W", "A", "C", "K", "_", "_", "A", "_", "_", "B">>
vEmptyParts == <<"G", "W", "A", "C", "K", "_", "_", "_">>
vHome == <<"H", "O", "M", "E">>

t9001 == <<"9", "0", "0", "1">>
tTwo == <<"2">>
tAbc == <<"a", "b", "c">>
tBadJson == <<"{", "b", "a", "d">>
tObjC3 == <<"{", "\"", "c", "\"", ":", "3", "}">>
tArr2 == <<"[", "2", "]">>
tRoot == <<"/", "r", "o", "o", "t">>
tBlobA2 == <<"{", "\"", "a", "\"", ":", "2", "}">>
tBlobAC3 == <<"{", "\"", "a", "\"", ":", "{", "\"", "c", "\"", ":", "3", "}", "}">>
tBlobAArr2 == <<"{", "\"", "a", "\"", ":", "[", "2", "]", "}">>
tBlobCut == <<"{", "\"", "a", "\"", ":">>
tFive == <<"5">>
tArr1 == <<"[", "1", "]">>

\* Keys and strings of the configuration objects.
kServe == <<"s", "e", "r", "v", "e">>
kPhp == <<"p", "h", "p">>
kPort == <<"p", "o", "r", "t">>
kOutDir == <<"o", "u", "t", "D", "i", "r">>
kEmptyOutDir == <<"e", "m", "p", "t", "y", "O", "u", "t", "D", "i", "r">>
kRollupOptions == <<"r", "o", "l", "l", "u", "p", "O", "p", "t", "i", "o", "n", "s">>
kInput == <<"i", "n", "p", "u", "t">>
kMain == <<"m", "a", "i", "n">>
kOutput == <<"o", "u", "t", "p", "u", "t">>
kManualChunks == <<"m", "a", "n", "u", "a", "l", "C", "h", "u", "n", "k", "s">>
kVue == <<"v", "u", "e">>
kVendor == <<"v", "e", "n", "d", "o", "r">>
kDir == <<"d", "i", "r">>
kExternal == <<"e", "x", "t", "e", "r", "n", "a", "l">>

sGwackPrefix == <<"G", "W", "A", "C", "K", "_">>
sDist == <<"d", "i", "s", "t">>
sOut == <<"o", "u", "t">>
sBuild == <<"b", "u", "i", "l", "d">>
sIndexHtml == <<"i", "n", "d", "e", "x", ".", "h", "t", "m", "l">>
sVueRouter == <<"v", "u", "e", "-", "r", "o", "u", "t", "e", "r">>
sFramework == <<"@", "g", "w", "a", "c", "k", "/", "f", "r", "a", "m", "e", "w", "o", "r", "k">>
sVueName == <<"v", "u", "e">>
sAssets == <<"a", "s", "s", "e", "t", "s">>

\* v[k], undefined when v has no such property
Prop(v, k) ==
    IF v.t \in {"obj", "arr"} /\ k \in Keys(v) THEN v.o[k] ELSE Undefined

\* the value reached from v along a key path, undefined when the path breaks
RECURSIVE GetPath(_, _)
GetPath(v, path) ==
    IF path = <<>> THEN v
    ELSE GetPath(Prop(v, Head(path)), Tail(path))

\* v with property k set to x (v an object, or an array taking an own property)
PutProp(v, k, x) == [v EXCEPT !.o = (k :> x) @@ v.o]

\* setDeep(obj, pathArr, val), as the value obj has afterwards: intermediate
\* keys that hold no plain object are replaced by {}, the last key is assigned.
RECURSIVE setDeep(_, _, _)
setDeep(cur, pathArr, val) ==
    IF Len(pathArr) = 1
    THEN PutProp(cur, pathArr[1], val)
    ELSE
      LET k     == Head(pathArr)
          child == IF isObject(Prop(cur, k)) THEN Prop(cur, k) ELSE EmptyObj
      IN  PutProp(cur, k, setDeep(child, Tail(pathArr), val))

\* setDeep throws a TypeError when obj is null or a primitive: the module is
\* strict-mode code, where a property cannot be created on a primitive.
setDeepThrows(obj) == obj.t \notin {"obj", "arr"}

IsPrefix(q, p) == Len(q) <= Len(p) /\ SubSeq(p, 1, Len(q)) = q

\* process.env[name]: undefined when the variable is not set
RECURSIVE envLookup(_, _)
envLookup(e, name) ==
    IF e = <<>> THEN Undefined
    ELSE IF Head(e).name = name THEN Str(Head(e).value)
    ELSE envLookup(Tail(e), name)

\* lines 224-226: the key path a variable name addresses
envParts(key) ==
    LET suffix == SubSeq(key, Len(sGwackPrefix) + 1, Len(key))
        parts  == IF startsWith(suffix, <<"_">>)
                  THEN filterNonEmpty(splitDouble(suffix, <<>>))
                  ELSE <<suffix>>
    IN  [i \in 1..Len(parts) |-> normalizeKey(parts[i])]

\* The objects of the result that are still objects of the caller's base
\* after deepMerge(result, parsed): deepMerge copies an object it merges and
\* keeps by reference every property of a that b does not set.
RECURSIVE sharedAfterMerge(_, _, _)
sharedAfterMerge(a, b, prefix) ==
    UNION { IF k \notin Keys(b)
            THEN (IF isObject(a.o[k]) THEN {Append(prefix, k)} ELSE {})
            ELSE IF isObject(a.o[k]) /\ isObject(b.o[k])
            THEN sharedAfterMerge(a.o[k], b.o[k], Append(prefix, k))
            ELSE {}
          : k \in Keys(a) }

\* base with the object at path r replaced by x
RECURSIVE PutPath(_, _, _)
PutPath(v, r, x) ==
    IF r = <<>> THEN x
    ELSE PutProp(v, Head(r), PutPath(v.o[Head(r)], Tail(r), x))

\* One setDeep(result, path, val) of the loop, on the state of the call:
\*   res    the result object,
\*   bas    the caller's base object,
\*   shared the topmost paths at which res and bas hold the same object
\*          (result = { ...base } copies the top level only).
\* A write made inside a shared object is a write to the caller's base.
applySetDeep(st, path, val) ==
    IF setDeepThrows(st.res)
    THEN [st EXCEPT !.threw = TRUE]
    ELSE
      LET res2 == setDeep(st.res, path, val)
          hit  == { r \in st.shared : Len(r) < Len(path) /\ IsPrefix(r, path) }
      IN  IF hit # {}
          THEN LET r == CHOOSE x \in hit : TRUE IN
               [st EXCEPT !.res = res2,
                          !.bas = PutPath(st.bas, r, GetPath(res2, r))]
          ELSE [st EXCEPT !.res = res2,
                          !.shared = { r \in st.shared : ~IsPrefix(path, r) }]

\* lines 220-230: the loop over Object.entries(process.env)
RECURSIVE applyEnv(_, _)
applyEnv(st, entries) ==
    IF entries = <<>> \/ st.threw THEN st
    ELSE
      LET key   == Head(entries).name
          value == Head(entries).value
          parts == envParts(key)
      IN  IF ~startsWith(key, sGwackPrefix) THEN applyEnv(st, Tail(entries))
          ELSE IF key = vJson THEN applyEnv(st, Tail(entries))
          ELSE IF Len(parts) = 0 THEN applyEnv(st, Tail(entries))
          ELSE applyEnv(applySetDeep(st, parts, coerce(value)), Tail(entries))

\* mergeEnvIntoRuntimeGwack(base) under the environment e: whether it threw,
\* the value returned (res) and the caller's base object afterwards (bas).
mergeEnvIntoRuntimeGwack(base, e) ==
    LET copy   == Obj(base.o)
        start  == [threw |-> FALSE, res |-> copy, bas |-> base,
                   shared |-> { <<k>> : k \in { x \in Keys(base) : isObject(base.o[x]) } }]
        json   == envLookup(e, vJson)
        parsed == IF json.t = "str" THEN JSONparse(json.s) ELSE ParseFail
        afterJson ==
            IF json.t = "str" /\ json.s # <<>> /\ parsed.ok
            THEN [start EXCEPT
                    !.res = deepMerge(copy, parsed.v),
                    !.shared = IF isObject(parsed.v)
                               THEN sharedAfterMerge(copy, parsed.v, <<>>)
                               ELSE {}]
            ELSE start
    IN  applyEnv(afterJson, e)

----------------------------------------------------------------------------
(* The build section of createViteConfig (lines 77-106).                   *)

\* v is truthy (of the values a build option takes: undefined or an object)
truthy(v) == v.t \notin {"undefined", "null"}

\* { ...a, ...b } of two objects
spread(a, b) == Obj(b.o @@ a.o)

\* (v || {})
orEmpty(v) == IF truthy(v) THEN v ELSE EmptyObj

\* ((v && v.rollupOptions) || {})
rollupOf(v) ==
    IF truthy(v) /\ truthy(Prop(v, kRollupOptions))
    THEN Prop(v, kRollupOptions)
    ELSE EmptyObj

defaultBuild ==
    Obj(kOutDir :> Str(sDist)
        @@ kEmptyOutDir :> Bool(TRUE)
        @@ kRollupOptions :> Obj(kInput :> Obj(kMain :> Str(sIndexHtml))))

\* mergedBuild with the top-level build applied before vite.build.
mergedBuildOf_topFirst(buildOverride, buildTop) ==
    LET step1 ==
          PutProp(spread(defaultBuild, orEmpty(buildTop)), kRollupOptions,
                  spread(rollupOf(defaultBuild), rollupOf(buildTop)))
    IN  IF ~truthy(buildOverride) THEN step1
        ELSE PutProp(spread(step1, buildOverride), kRollupOptions,
                     spread(rollupOf(step1), rollupOf(buildOverride)))

\* precedence: default <- vite.build <- top-level build
mergedBuildOf(buildOverride, buildTop) ==
    LET step1 ==
          PutProp(spread(defaultBuild, orEmpty(buildOverride)), kRollupOptions,
                  spread(rollupOf(defaultBuild), rollupOf(buildOverride)))
    IN  IF ~truthy(buildTop) THEN step1
        ELSE PutProp(spread(step1, buildTop), kRollupOptions,
                     spread(rollupOf(step1), rollupOf(buildTop)))

----------------------------------------------------------------------------
(* JSON.stringify, for the values above.                                   *)

\* the decimal digits of a natural number
RECURSIVE natToChars(_)
natToChars(n) ==
    IF n < 10 THEN <<DigitChars[n + 1]>>
    ELSE natToChars(n \div 10) \o <<DigitChars[(n % 10) + 1]>>

numToChars(n) == IF n < 0 THEN <<"-">> \o natToChars(0 - n) ELSE natToChars(n)

\* the elements of a finite set, one after the other (the objects of the model
\* do not keep the insertion order of their keys)
RECURSIVE SetToSeq(_)
SetToSeq(S) ==
    IF S = {} THEN <<>>
    ELSE LET x == CHOOSE y \in S : TRUE IN <<x>> \o SetToSeq(S \ {x})

\* parts.join(sep)
RECURSIVE joinWith(_, _)
joinWith(parts, sep) ==
    IF parts = <<>> THEN <<>>
    ELSE IF Len(parts) = 1 THEN parts[1]
    ELSE parts[1] \o sep \o joinWith(Tail(parts), sep)

\* JSON.stringify(v) of a value other than undefined: an undefined property is
\* left out, an undefined element is written null, the own properties of an
\* array are not written.
RECURSIVE JSONstringify(_)
JSONstringify(v) ==
    IF v.t = "null" THEN sNull
    ELSE IF v.t = "bool" THEN (IF v.b THEN sTrue ELSE sFalse)
    ELSE IF v.t = "num" THEN numToChars(v.n)
    ELSE IF v.t = "str" THEN jsonString(v.s)
    ELSE IF v.t = "arr"
    THEN <<"[">>
         \o joinWith([i \in 1..Len(v.a) |->
                        IF v.a[i].t = "undefined" THEN sNull ELSE JSONstringify(v.a[i])],
                     <<",">>)
         \o <<"]">>
    ELSE LET ks == SetToSeq({ k \in Keys(v) : v.o[k].t # "undefined" }) IN
         <<"{">>
         \o joinWith([i \in 1..Len(ks) |->
                        jsonString(ks[i]) \o <<":">> \o JSONstringify(v.o[ks[i]])],
                     <<",">>)
         \o <<"}">>

----------------------------------------------------------------------------
(* gwackPlugin (src/src/plugins/gwack.js) and the options that reach it.   *)

\* The synthetic module identifiers, the alias of the config module, and an
\* identifier of an ordinary module.
idRoutes == "virtual:gwack-routes"
idApp == "virtual:gwack-app"
idEntry == "virtual:gwack-entry"
idConfig == "virtual:gwack-config"
idConfigAlias == "gwack/config"
idVue == "vue"

ModuleIds == { idRoutes, idApp, idEntry, idConfig, idConfigAlias, idVue }

\* The locations at which the template files are looked for.
tNmApp == "node_modules/@gwack/cli/shims/app-component.tmpl"
tLocalApp == "shims/app-component.tmpl"
tNmEntry == "node_modules/@gwack/cli/shims/entry-point.tmpl"
tLocalEntry == "shims/entry-point.tmpl"
tPhpShim == "shims/index.php.tmpl"

\* readFileSync(location, 'utf8') of a template file
TemplateText(loc) == [t |-> "text", from |-> loc]

\* The outcome of a call: a returned value, or an exception.
Value(v) == [threw |-> FALSE, val |-> v]
Raise == [threw |-> TRUE, val |-> Undefined]

\* The error thrown inside the try block is thrown again by the catch block.
generateAppComponent(tmpls) ==
    IF tNmApp \in tmpls THEN Value(TemplateText(tNmApp))
    ELSE IF tLocalApp \in tmpls THEN Value(TemplateText(tLocalApp))
    ELSE Raise

\* A generator that answers a missing template with an undefined source.
generateEntryPoint_undefined(tmpls) ==
    IF tNmEntry \in tmpls THEN Value(TemplateText(tNmEntry))
    ELSE IF tLocalEntry \in tmpls THEN Value(TemplateText(tLocalEntry))
    ELSE Value(Undefined)

\* generateEntryPoint(phpPort): the port is not used.
generateEntryPoint(tmpls) ==
    IF tNmEntry \in tmpls THEN Value(TemplateText(tNmEntry))
    ELSE IF tLocalEntry \in tmpls THEN Value(TemplateText(tLocalEntry))
    ELSE Raise

\* const { k = default } = options: the default stands in for a key that is
\* absent or undefined
optGet(options, k, default) ==
    IF k \in DOMAIN options /\ options[k] # Undefined THEN options[k] ELSE default

\* process.cwd() and join(root, 'pages')
sRoot == <<"/", "w">>
pagesDirOf(root) == root \o <<"/", "p", "a", "g", "e", "s">>

\* The options devCommand hands to createViteConfig (build.js:137-144).
devViteOptions(root, phpPort, gwackConfigVite, gwackConfigGwack) ==
    ("root" :> Str(root))
    @@ ("phpPort" :> phpPort)
    @@ ("vite" :> orEmpty(gwackConfigVite))
    @@ ("runtimeGwack" :> orEmpty(gwackConfigGwack))

\* The options createViteConfig hands to gwackPlugin (vite.js:126-131).
pluginOptions(root, phpPort, mergedRuntime) ==
    ("phpPort" :> phpPort)
    @@ ("pagesDir" :> Str(pagesDirOf(root)))
    @@ ("serverDir" :> Str(root \o <<"/", "s", "e", "r", "v", "e", "r">>))
    @@ ("runtimeConfig" :> mergedRuntime)

\* gwackPlugin(options): what the hooks close over (gwack.js:23-28).
gwackPlugin(options) ==
    [t |-> "plugin",
     pagesDir |-> optGet(options, "pagesDir", Undefined),
     phpPort |-> optGet(options, "phpPort", Num(8000)),
     runtimeGwack |-> optGet(options, "runtimeGwack", EmptyObj)]

\* s.includes(sub)
includes(s, sub) ==
    \E i \in 1..(Len(s) - Len(sub) + 1) : SubSeq(s, i, i + Len(sub) - 1) = sub

\* resolveId(id)
resolveId(id) ==
    IF id = idRoutes THEN Value([t |-> "id", id |-> id])
    ELSE IF id = idApp THEN Value([t |-> "id", id |-> id])
    ELSE IF id = idConfig \/ id = idConfigAlias THEN Value([t |-> "id", id |-> idConfig])
    ELSE Value(Undefined)

\* The text load returns for virtual:gwack-config:
\* `export function useRuntimeConfig() { return ${JSON.stringify(runtimeGwack)}; }`
configSource(runtimeGwack) == [t |-> "accessor", json |-> JSONstringify(runtimeGwack)]

\* The text load returns for virtual:gwack-routes, by its lines.
routesModuleText(rs) == [t |-> "lines", lines |-> routesSource(rs)]

\* A hook call: its name, argument (a module id, or the file and event type of
\* a hot update), outcome and effects.
HookCall(name, id, file, type, res, wrote, reloaded) ==
    [name |-> name, id |-> id, file |-> file, type |-> type,
     threw |-> res.threw, out |-> res.val,
     wrote |-> wrote, reloaded |-> reloaded]

NoHook == HookCall("none", "", <<>>, "", Value(Undefined), FALSE, FALSE)

----------------------------------------------------------------------------
(* The PHP supervisor (src/src/servers/php.js): the entry script, and the  *)
(* classification of the lines the PHP process writes to stderr.           *)

\* createPhpEntryPoint's reading of the template (php.js:114-128)
createPhpEntryPoint(tmpls) ==
    IF tPhpShim \in tmpls THEN Value(TemplateText(tPhpShim)) ELSE Raise

\* the regular-expression class \s, for the characters the lines hold
isSpace(c) == c \in {" ", "\t", "\r", "\n"}

\* s without its leading white space
trimStartWs(s) ==
    IF \A i \in 1..Len(s) : isSpace(s[i]) THEN <<>>
    ELSE LET first == CHOOSE i \in 1..Len(s) :
                         /\ ~isSpace(s[i])
                         /\ \A k \in 1..(i - 1) : isSpace(s[k])
         IN  SubSeq(s, first, Len(s))

\* l.trim()
trimWs(s) ==
    LET t == trimStartWs(s) IN
    IF t = <<>> THEN <<>>
    ELSE LET last == CHOOSE i \in 1..Len(t) :
                        /\ ~isSpace(t[i])
                        /\ \A k \in (i + 1)..Len(t) : isSpace(t[k])
         IN  SubSeq(t, 1, last)

\* text.split(/\r?\n/): the pieces between the newlines, a carriage return
\* before a newline belonging to the separator
splitLines(text) ==
    LET nl == { i \in 1..Len(text) : text[i] = "\n" }
        nth(k) == CHOOSE i \in nl : Cardinality({ j \in nl : j < i }) = k - 1
        from(k) == IF k = 1 THEN 1 ELSE nth(k - 1) + 1
        upto(k) == IF k = Cardinality(nl) + 1 THEN Len(text)
                   ELSE IF nth(k) > from(k) /\ text[nth(k) - 1] = "\r" THEN nth(k) - 2
                   ELSE nth(k) - 1
    IN  [k \in 1..(Cardinality(nl) + 1) |-> SubSeq(text, from(k), upto(k))]

\* text.split(/\r?\n/).map(l => l.trim()).filter(Boolean)
stderrLines(text) ==
    LET parts == splitLines(text) IN
    SelectSeq([i \in 1..Len(parts) |-> trimWs(parts[i])], LAMBDA l : l # <<>>)

\* The markers and method names of the regular expressions, in lower case
\* (the expressions are case-insensitive).
mkWarning == <<"p", "h", "p", " ", "w", "a", "r", "n", "i", "n", "g">>
mkNotice == <<"p", "h", "p", " ", "n", "o", "t", "i", "c", "e">>
mkDeprecated == <<"p", "h", "p", " ", "d", "e", "p", "r", "e", "c", "a", "t", "e", "d">>
mkFatal == <<"p", "h", "p", " ", "f", "a", "t", "a", "l", " ", "e", "r", "r", "o", "r">>
mkParse == <<"p", "h", "p", " ", "p", "a", "r", "s", "e", " ", "e", "r", "r", "o", "r">>
mkRecoverable == <<"p", "h", "p", " ", "r", "e", "c", "o", "v", "e", "r", "a", "b", "l", "e", " ", "f", "a", "t", "a", "l", " ", "e", "r", "r", "o", "r">>
mkUncaughtException == <<"u", "n", "c", "a", "u", "g", "h", "t", " ", "e", "x", "c", "e", "p", "t", "i", "o", "n">>
mkUncaughtError == <<"u", "n", "c", "a", "u", "g", "h", "t", " ", "e", "r", "r", "o", "r">>
mkStackTrace == <<"s", "t", "a", "c", "k", " ", "t", "r", "a", "c", "e", ":">>
mkDevServer == <<"d", "e", "v", "e", "l", "o", "p", "m", "e", "n", "t", " ", "s", "e", "r", "v", "e", "r">>

mGet == <<"g", "e", "t">>
mPost == <<"p", "o", "s", "t">>
mPut == <<"p", "u", "t">>
mPatch == <<"p", "a", "t", "c", "h">>
mDelete == <<"d", "e", "l", "e", "t", "e">>
mHead == <<"h", "e", "a", "d">>
mOptions == <<"o", "p", "t", "i", "o", "n", "s">>

Methods == <<mGet, mPost, mPut, mPatch, mDelete, mHead, mOptions>>

\* /PHP (Warning|Notice|Deprecated)/i.test(line)
isPhpWarning(line) ==
    LET l == toLowerCase(line) IN
    includes(l, mkWarning) \/ includes(l, mkNotice) \/ includes(l, mkDeprecated)

\* /PHP (Fatal error|Parse error|Recoverable fatal error)|Uncaught (Exception|Error)|Stack trace:/i
isPhpError(line) ==
    LET l == toLowerCase(line) IN
    \/ includes(l, mkFatal) \/ includes(l, mkParse) \/ includes(l, mkRecoverable)
    \/ includes(l, mkUncaughtException) \/ includes(l, mkUncaughtError)
    \/ includes(l, mkStackTrace)

\* A regular expression is matched piece by piece from the start of the
\* line: a piece takes the text left by the pieces before it.
Matched(rest) == [ok |-> TRUE, rest |-> rest]
NoMatch == [ok |-> FALSE, rest |-> <<>>]

\* \s+
reSpaces(m) ==
    IF m.ok /\ m.rest # <<>> /\ isSpace(Head(m.rest))
    THEN Matched(trimStartWs(m.rest))
    ELSE NoMatch

\* \[[^\]]+\]
reBracketed(m) ==
    IF /\ m.ok
       /\ Len(m.rest) >= 3
       /\ m.rest[1] = "["
       /\ m.rest[2] # "]"
       /\ \E j \in 3..Len(m.rest) : m.rest[j] = "]"
    THEN LET j == CHOOSE j \in 3..Len(m.rest) :
                     /\ m.rest[j] = "]"
                     /\ \A k \in 3..(j - 1) : m.rest[k] # "]"
         IN  Matched(SubSeq(m.rest, j + 1, Len(m.rest)))
    ELSE NoMatch

\* the run of non-space characters at the head of s
nonSpaceRun(s) ==
    IF \A i \in 1..Len(s) : ~isSpace(s[i]) THEN s
    ELSE LET sp == CHOOSE i \in 1..Len(s) :
                      /\ isSpace(s[i])
                      /\ \A k \in 1..(i - 1) : ~isSpace(s[k])
         IN  SubSeq(s, 1, sp - 1)

\* \S+:\d+ where \s+ follows: the run of non-space characters at the head is
\* some characters, a colon, and digits up to its end
reAddrPort(m) ==
    LET tok == nonSpaceRun(m.rest) IN
    IF /\ m.ok
       /\ \E i \in 2..(Len(tok) - 1) :
             /\ tok[i] = ":"
             /\ \A k \in (i + 1)..Len(tok) : tok[k] \in Range(DigitChars)
    THEN Matched(SubSeq(m.rest, Len(tok) + 1, Len(m.rest)))
    ELSE NoMatch

\* \[\d{3}\]:
reStatus(m) ==
    IF /\ m.ok
       /\ Len(m.rest) >= 6
       /\ m.rest[1] = "["
       /\ \A k \in 2..4 : m.rest[k] \in Range(DigitChars)
       /\ m.rest[5] = "]"
       /\ m.rest[6] = ":"
    THEN Matched(SubSeq(m.rest, 7, Len(m.rest)))
    ELSE NoMatch

\* (GET|POST|PUT|PATCH|DELETE|HEAD|OPTIONS)
reMethod(m) ==
    IF m.ok /\ \E i \in 1..Len(Methods) : startsWith(toLowerCase(m.rest), Methods[i])
    THEN LET i == CHOOSE i \in 1..Len(Methods) : startsWith(toLowerCase(m.rest), Methods[i])
         IN  Matched(SubSeq(m.rest, Len(Methods[i]) + 1, Len(m.rest)))
    ELSE NoMatch

\* /^\[[^\]]+\]\s+\S+:\d+\s+\[\d{3}\]:\s+(GET|...)\s+/i
withTimeAndStatus(line) ==
    reSpaces(reMethod(reSpaces(reStatus(reSpaces(reAddrPort(reSpaces(
        reBracketed(Matched(line))))))))).ok

\* /^\[[^\]]+\]\s+\S+:\d+\s+(GET|...)\s+/i
withTime(line) ==
    reSpaces(reMethod(reSpaces(reAddrPort(reSpaces(reBracketed(Matched(line))))))).ok

\* /^\S+:\d+\s+\[\d{3}\]:\s+(GET|...)\s+/i
noTime(line) ==
    reSpaces(reMethod(reSpaces(reStatus(reSpaces(reAddrPort(Matched(line))))))).ok

isPhpRequestLog(line) ==
    IF includes(toLowerCase(line), mkDevServer) THEN FALSE
    ELSE withTimeAndStatus(line) \/ withTime(line) \/ noTime(line)

\* The branch the stderr handler takes for a line (php.js:50-68).
bucketOf(line) ==
    IF isPhpWarning(line) THEN "warning"
    ELSE IF isPhpError(line) THEN "error"
    ELSE IF isPhpRequestLog(line) THEN "request-log"
    ELSE "info"

\* What the stderr handler prints for a chunk of text, line by line.
stderrRecords(text) ==
    IF text = <<>> THEN <<>>
    ELSE LET ls == stderrLines(text) IN
         [i \in 1..Len(ls) |-> [bucket |-> bucketOf(ls[i]), line |-> ls[i]]]

\* What the stdout handler prints for a chunk of text (php.js:36-41): the
\* trimmed text, unless it is empty or holds 'Development Server'.
sDevelopmentServer ==
    <<"D", "e", "v", "e", "l", "o", "p", "m", "e", "n", "t", " ",
      "S", "e", "r", "v", "e", "r">>

stdoutPrinted(text) ==
    LET output == trimWs(text) IN
    IF output # <<>> /\ ~includes(output, sDevelopmentServer)
    THEN Str(output)
    ELSE Undefined

----------------------------------------------------------------------------
(* The three parts of the program are checked one at a time; the state of  *)
(* the parts not running stays as below.                                   *)

MergeIdle ==
    /\ ma = Undefined /\ mb = Undefined /\ mc = Undefined
    /\ mab = Undefined /\ mbc = Undefined
    /\ mleft = Undefined /\ mright = Undefined

RouteIdle ==
    /\ dirs = {} /\ files = {}
    /\ routes = <<>> /\ routesModule = <<>>
    /\ loaded = "no"

EnvIdle ==
    /\ runtimeConfig = Undefined /\ env = <<>>
    /\ viteBuild = Undefined /\ buildTopLevel = Undefined
    /\ cfgStatus = "no"
    /\ envMergedRuntime = Undefined /\ mergedBuild = Undefined

PluginIdle ==
    /\ fileGwack = Undefined /\ plugin = Undefined
    /\ templates = {} /\ gwackDir = FALSE
    /\ entryJs = Undefined /\ watched = FALSE
    /\ routesInGraph = FALSE
    /\ hook = NoHook

ClientIds == { "c1", "c2" }

NotifyIdle ==
    /\ wsClients = [c \in ClientIds |-> "closed"]
    /\ wsInbox = [c \in ClientIds |-> <<>>]
    /\ wsSent = <<>> /\ watchEvents = <<>>
    /\ handled = [c \in ClientIds |-> <<>>]

BuildIdle ==
    /\ buildPc = "idle" /\ buildExit = "none"
    /\ projHas = {} /\ shimsHas = {} /\ outTree = {}
    /\ buildsDone = <<>>

CreateIdle ==
    /\ createPc = "idle" /\ createExit = "none" /\ createReport = "none"
    /\ createShims = {} /\ projFiles = {}

DevIdle ==
    /\ devPc = "off" /\ devLog = <<>> /\ devExit = "none" /\ devThrew = "none"
    /\ configFile = "absent"
    /\ cliPhpPort = Undefined /\ cliPort = Undefined /\ cliHost = Undefined
    /\ servePhpPort = Undefined /\ servePort = Undefined /\ serveHost = Undefined
    /\ vitePort = Undefined /\ viteHost = Undefined
    /\ wssOpen = FALSE /\ viteUp = FALSE /\ watching = FALSE
    /\ sigintHandler = FALSE

PhpIdle ==
    /\ phpPc = "idle" /\ phpServerPort = Undefined
    /\ phpProc = "none"
    /\ phpErrorPending = FALSE /\ phpReported = FALSE /\ phpKillCalled = FALSE
    /\ indexPhp = Undefined
    /\ stderrText = <<>> /\ stream = <<>> /\ records = <<>>
    /\ stdoutLast = Undefined

----------------------------------------------------------------------------
(* createViteConfig as a state machine: the options and the environment    *)
(* are drawn at the start, the call resolves the runtime configuration and *)
(* the build section.                                                      *)

\* options.runtimeConfig objects
RuntimeConfigs ==
    { EmptyObj,
      Obj(kA :> Num(1)),
      Obj(kA :> Obj(kB :> Num(1) @@ kC :> Num(7))),
      Obj(kA :> Arr(<<Num(1)>>)),
      Obj(kServe :> Obj(kPhp :> Obj(kPort :> Num(8080)))) }

\* GWACK_JSON texts: valid objects, a truncated text, non-objects, the empty string
JsonBlobs ==
    { tBlobA2, tBlobAC3, tBlobAArr2, tBlobCut, tFive, sNull, tArr1, <<>> }

EnvVar(n, v) == [name |-> n, value |-> v]

\* the other variables an environment may hold
EnvEntries ==
    { EnvVar(vServePhpPort, t9001),
      EnvVar(vNestedAB, tTwo),
      EnvVar(vNestedAB, tBadJson),
      EnvVar(vNestedA, tObjC3),
      EnvVar(vNestedA, tArr2),
      EnvVar(vFlatA, sTrue),
      EnvVar(vFlatA, tAbc),
      EnvVar(vDocAB, sNull),
      EnvVar(vEmptyParts, tTwo),
      EnvVar(vHome, tRoot) }

\* the enumerations of at most n variables with different names
RECURSIVE EnvSeqs(_)
EnvSeqs(n) ==
    IF n = 0 THEN { <<>> }
    ELSE LET prev == EnvSeqs(n - 1) IN
         prev \cup UNION { { Append(e, x) :
                                x \in { y \in EnvEntries :
                                          \A i \in 1..Len(e) : e[i].name # y.name } }
                            : e \in prev }

\* the build options of the build command (src/src/cli/build.js:29-39) for an
\* output directory, and those of a config file's vite.build
BuildCommandBuild(output) ==
    Obj(kOutDir :> Str(output)
        @@ kRollupOptions :>
             Obj(kOutput :>
                   Obj(kManualChunks :>
                         Obj(kVue :> Arr(<<Str(sVueName), Str(sVueRouter)>>)
                             @@ kVendor :> Arr(<<Str(sFramework)>>)))))

TopLevelBuilds == { Undefined, BuildCommandBuild(sDist), BuildCommandBuild(sOut) }

ViteBuilds ==
    { Undefined,
      EmptyObj,
      Obj(kOutDir :> Str(sBuild)),
      Obj(kEmptyOutDir :> Bool(FALSE)
          @@ kRollupOptions :> Obj(kExternal :> Arr(<<Str(sVueName)>>))),
      Obj(kOutDir :> Str(sBuild)
          @@ kRollupOptions :> Obj(kInput :> Obj(kMain :> Str(sAssets))
                                   @@ kOutput :> Obj(kDir :> Str(sAssets)))) }

EnvInit ==
    /\ \/ /\ runtimeConfig \in RuntimeConfigs
          /\ \E vs \in EnvSeqs(MaxVars) :
                \/ env = vs
                \/ \E blob \in JsonBlobs : env = <<EnvVar(vJson, blob)>> \o vs
          /\ viteBuild = Undefined
          /\ buildTopLevel = Undefined
       \/ /\ runtimeConfig = EmptyObj
          /\ env = <<>>
          /\ viteBuild \in ViteBuilds
          /\ buildTopLevel \in TopLevelBuilds
    /\ cfgStatus = "no"
    /\ envMergedRuntime = Undefined
    /\ mergedBuild = Undefined
    /\ RouteIdle
    /\ MergeIdle
    /\ PluginIdle
    /\ PhpIdle
    /\ DevIdle
    /\ NotifyIdle
    /\ BuildIdle
    /\ CreateIdle

\* createViteConfig(options): mergeEnvIntoRuntimeGwack(runtimeConfig) first
\* (line 61; an exception of it leaves createViteConfig), then the build merge.
CreateViteConfig ==
    /\ cfgStatus = "no"
    /\ LET m == mergeEnvIntoRuntimeGwack(runtimeConfig, env) IN
       IF m.threw
       THEN /\ cfgStatus' = "threw"
            /\ runtimeConfig' = m.bas
            /\ UNCHANGED <<envMergedRuntime, mergedBuild>>
       ELSE /\ cfgStatus' = "returned"
            /\ runtimeConfig' = m.bas
            /\ envMergedRuntime' = m.res
            /\ mergedBuild' = mergedBuildOf(viteBuild, buildTopLevel)
    /\ UNCHANGED <<env, viteBuild, buildTopLevel>>
    /\ UNCHANGED <<routeVars, mergeVars, pluginVars, phpVars, devVars, toolVars>>

EnvNext == CreateViteConfig

EnvSpec == EnvInit /\ [][EnvNext]_vars

----------------------------------------------------------------------------
(* deepMerge applied to three values, in both groupings.                   *)

MergeInit ==
    /\ ma \in MergeValues
    /\ mb \in MergeValues
    /\ mc \in MergeValues
    /\ mab = Undefined
    /\ mbc = Undefined
    /\ mleft = Undefined
    /\ mright = Undefined
    /\ RouteIdle
    /\ EnvIdle
    /\ PluginIdle
    /\ PhpIdle
    /\ DevIdle
    /\ NotifyIdle
    /\ BuildIdle
    /\ CreateIdle

MergeAB ==
    /\ mab = Undefined
    /\ mab' = deepMerge(ma, mb)
    /\ UNCHANGED <<ma, mb, mc, mbc, mleft, mright>>
    /\ UNCHANGED <<routeVars, envVars, pluginVars, phpVars, devVars, toolVars>>

MergeBC ==
    /\ mbc = Undefined
    /\ mbc' = deepMerge(mb, mc)
    /\ UNCHANGED <<ma, mb, mc, mab, mleft, mright>>
    /\ UNCHANGED <<routeVars, envVars, pluginVars, phpVars, devVars, toolVars>>

MergeLeft ==
    /\ mab # Undefined
    /\ mleft = Undefined
    /\ mleft' = deepMerge(mab, mc)
    /\ UNCHANGED <<ma, mb, mc, mab, mbc, mright>>
    /\ UNCHANGED <<routeVars, envVars, pluginVars, phpVars, devVars, toolVars>>

MergeRight ==
    /\ mbc # Undefined
    /\ mright = Undefined
    /\ mright' = deepMerge(ma, mbc)
    /\ UNCHANGED <<ma, mb, mc, mab, mbc, mleft>>
    /\ UNCHANGED <<routeVars, envVars, pluginVars, phpVars, devVars, toolVars>>

MergeNext ==
    \/ MergeAB
    \/ MergeBC
    \/ MergeLeft
    \/ MergeRight

MergeSpec == MergeInit /\ [][MergeNext]_vars

----------------------------------------------------------------------------
(* The route discoverer as a state machine.                                *)

RouteInit ==
    /\ \E ds \in SUBSET (DirPaths \cup {<<>>}) :
       \E fs \in SubsetsUpTo(FilePaths, MaxFiles) \cup {ExampleFiles} :
          /\ IsTree(ds, fs)
          /\ dirs = ds
          /\ files = fs
    /\ routes = <<>>
    /\ routesModule = <<>>
    /\ loaded = "no"
    /\ MergeIdle
    /\ EnvIdle
    /\ PluginIdle
    /\ PhpIdle
    /\ DevIdle
    /\ NotifyIdle
    /\ BuildIdle
    /\ CreateIdle

\* load('virtual:gwack-routes'): generateRoutes(pagesDir), then serialization.
\* A rejection of generateRoutes rejects load.
LoadRoutes ==
    /\ loaded = "no"
    /\ \E ord \in ListingOrders :
         LET res == generateRoutes(dirs, files, ord) IN
         IF res.threw
         THEN /\ loaded' = "threw"
              /\ UNCHANGED <<routes, routesModule>>
         ELSE /\ loaded' = "yes"
              /\ routes' = res.routes
              /\ routesModule' = routesSource(res.routes)
    /\ UNCHANGED <<dirs, files>>
    /\ UNCHANGED <<mergeVars, envVars, pluginVars, phpVars, devVars, toolVars>>

RouteNext == LoadRoutes

RouteSpec == RouteInit /\ [][RouteNext]_vars

----------------------------------------------------------------------------
(* The plugin as a state machine: devCommand builds the Vite configuration *)
(* (which constructs the plugin), then the bundler calls the hooks.        *)

\* The runtime sections a config file may hold (none, or an object).
FileGwacks == { Undefined, Obj(kA :> Num(1)), Obj(kC :> Str(tAbc)) }

\* The environments of the process.
PluginEnvs == { <<>>, <<EnvVar(vFlatA, tAbc)>>, <<EnvVar(vNestedAB, tTwo)>> }

\* The places a template is looked for.
TemplateLocations == { tNmApp, tLocalApp, tNmEntry, tLocalEntry, tPhpShim }

\* The template files present: all of them, the package-local ones only, none.
PluginTemplateSets ==
    { { tNmApp, tLocalApp, tNmEntry, tLocalEntry }, { tLocalApp, tLocalEntry }, {} }

\* The files a hot update is about: a page, a page in a subdirectory, a
\* script among the pages, a component outside the pages directory, and a
\* component in a sibling directory whose name starts like the pages directory.
fPage == pagesDirOf(sRoot) \o <<"/", "a", ".", "v", "u", "e">>
fSubPage == pagesDirOf(sRoot) \o <<"/", "u", "/", "b", ".", "v", "u", "e">>
fPageScript == pagesDirOf(sRoot) \o <<"/", "a", ".", "j", "s">>
fComponent == sRoot \o <<"/", "c", "/", "a", ".", "v", "u", "e">>
fSibling == pagesDirOf(sRoot) \o <<"-", "o", "l", "d", "/", "a", ".", "v", "u", "e">>

HotFiles == { fPage, fSubPage, fPageScript, fComponent, fSibling }

\* ctx.type: a file created, deleted, or edited in place
HotTypes == { "create", "delete", "update" }

PluginInit ==
    /\ fileGwack \in FileGwacks
    /\ env \in PluginEnvs
    /\ templates \in PluginTemplateSets
    /\ gwackDir \in BOOLEAN
    /\ routesInGraph \in BOOLEAN
    /\ \/ dirs = {} /\ files = {}
       \/ dirs = ExampleDirs /\ files = ExampleFiles
    /\ plugin = Undefined
    /\ entryJs = Undefined
    /\ watched = FALSE
    /\ hook = NoHook
    /\ routes = <<>> /\ routesModule = <<>> /\ loaded = "no"
    /\ runtimeConfig = Undefined
    /\ viteBuild = Undefined /\ buildTopLevel = Undefined
    /\ cfgStatus = "no"
    /\ envMergedRuntime = Undefined /\ mergedBuild = Undefined
    /\ MergeIdle
    /\ PhpIdle
    /\ DevIdle
    /\ NotifyIdle
    /\ BuildIdle
    /\ CreateIdle

\* devCommand's call of createViteConfig (build.js:137-144) up to the
\* construction of the plugin (vite.js:45-131): the options are destructured,
\* the environment is merged into options.runtimeConfig, the build section is
\* resolved, gwackPlugin is called.
createViteConfigCall(resolvedPhpPort) ==
    /\ cfgStatus = "no"
    /\ LET options == devViteOptions(sRoot, resolvedPhpPort, Undefined, fileGwack)
           root    == optGet(options, "root", Str(sRoot))
           phpPort == optGet(options, "phpPort", Num(8000))
           base    == optGet(options, "runtimeConfig", EmptyObj)
           top     == optGet(options, "build", Undefined)
           m       == mergeEnvIntoRuntimeGwack(base, env)
       IN  /\ runtimeConfig' = m.bas
           /\ buildTopLevel' = top
           /\ IF m.threw
              THEN /\ cfgStatus' = "threw"
                   /\ UNCHANGED <<envMergedRuntime, mergedBuild, plugin>>
              ELSE /\ cfgStatus' = "returned"
                   /\ envMergedRuntime' = m.res
                   /\ mergedBuild' = mergedBuildOf(viteBuild, top)
                   /\ plugin' = gwackPlugin(pluginOptions(root.s, phpPort, m.res))
    /\ UNCHANGED <<env, viteBuild>>
    /\ UNCHANGED <<fileGwack, templates, gwackDir, entryJs, watched, routesInGraph, hook>>
    /\ UNCHANGED <<routeVars, mergeVars, toolVars>>

\* The call with the PHP port at its default.
DevViteConfig ==
    /\ createViteConfigCall(Num(8080))
    /\ UNCHANGED <<phpVars, devVars, toolVars>>

\* buildStart(): the directory .gwack is made, the entry point generated and
\* written, the pages directory watched when it exists.
BuildStart ==
    /\ plugin # Undefined
    /\ gwackDir' = TRUE
    /\ LET gen == generateEntryPoint(templates) IN
       IF gen.threw
       THEN /\ hook' = HookCall("buildStart", "", <<>>, "", Raise, FALSE, FALSE)
            /\ UNCHANGED <<entryJs, watched>>
       ELSE /\ hook' = HookCall("buildStart", "", <<>>, "", Value(Undefined), TRUE, FALSE)
            /\ entryJs' = gen.val
            /\ watched' = (watched \/ <<>> \in dirs)
    /\ UNCHANGED <<fileGwack, plugin, templates, routesInGraph>>
    /\ UNCHANGED <<routeVars, mergeVars, envVars, phpVars, devVars, toolVars>>

\* resolveId(id)
ResolveId ==
    /\ plugin # Undefined
    /\ \E id \in ModuleIds :
          hook' = HookCall("resolveId", id, <<>>, "", resolveId(id), FALSE, FALSE)
    /\ UNCHANGED <<fileGwack, plugin, templates, gwackDir, entryJs, watched, routesInGraph>>
    /\ UNCHANGED <<routeVars, mergeVars, envVars, phpVars, devVars, toolVars>>

\* load(id)
Load ==
    /\ plugin # Undefined
    /\ \E id \in ModuleIds :
          IF id = idRoutes
          THEN \E ord \in ListingOrders :
                  LET res == generateRoutes(dirs, files, ord) IN
                  IF res.threw
                  THEN /\ hook' = HookCall("load", id, <<>>, "", Raise, FALSE, FALSE)
                       /\ loaded' = "threw"
                       /\ UNCHANGED <<routes, routesModule>>
                  ELSE /\ hook' = HookCall("load", id, <<>>, "",
                                           Value(routesModuleText(res.routes)), FALSE, FALSE)
                       /\ loaded' = "yes"
                       /\ routes' = res.routes
                       /\ routesModule' = routesSource(res.routes)
          ELSE /\ hook' = HookCall("load", id, <<>>, "",
                             IF id = idApp THEN generateAppComponent(templates)
                             ELSE IF id = idEntry THEN generateEntryPoint(templates)
                             ELSE IF id = idConfig THEN Value(configSource(plugin.runtimeGwack))
                             ELSE Value(Undefined),
                             FALSE, FALSE)
               /\ UNCHANGED <<routes, routesModule, loaded>>
    /\ UNCHANGED <<dirs, files>>
    /\ UNCHANGED <<fileGwack, plugin, templates, gwackDir, entryJs, watched, routesInGraph>>
    /\ UNCHANGED <<mergeVars, envVars, phpVars, devVars, toolVars>>

\* handleHotUpdate(ctx): for a .vue file whose path includes the pages
\* directory and a create or delete event, the entry point is generated and
\* written (writeFileSync fails when the directory .gwack is missing) and the
\* routes module reloaded when the module graph holds it.
HandleHotUpdate ==
    /\ plugin # Undefined
    /\ \E file \in HotFiles, type \in HotTypes :
          IF includes(file, plugin.pagesDir.s) /\ endsWith(file, sVue)
             /\ type \in {"create", "delete"}
          THEN LET gen == generateEntryPoint(templates) IN
               IF gen.threw \/ ~gwackDir
               THEN /\ hook' = HookCall("handleHotUpdate", "", file, type, Raise, FALSE, FALSE)
                    /\ UNCHANGED entryJs
               ELSE /\ hook' = HookCall("handleHotUpdate", "", file, type,
                                        Value(Undefined), TRUE, routesInGraph)
                    /\ entryJs' = gen.val
          ELSE /\ hook' = HookCall("handleHotUpdate", "", file, type,
                                   Value(Undefined), FALSE, FALSE)
               /\ UNCHANGED entryJs
    /\ UNCHANGED <<fileGwack, plugin, templates, gwackDir, watched, routesInGraph>>
    /\ UNCHANGED <<routeVars, mergeVars, envVars, phpVars, devVars, toolVars>>

PluginNext ==
    \/ DevViteConfig
    \/ BuildStart
    \/ ResolveId
    \/ Load
    \/ HandleHotUpdate

PluginSpec == PluginInit /\ [][PluginNext]_vars

----------------------------------------------------------------------------
(* startPhpServer as a state machine: the call, the entry script, the      *)
(* spawn, the events of the child process, the delay, the returned handle. *)

\* Lines the PHP process writes to stderr.
\* `[Mon Jan 1 00:00:00 2024] 127.0.0.1:1234 [200]: GET /`
lnAccess ==
    <<"[", "M", "o", "n", " ", "J", "a", "n", " ", "1", " ", "0", "0", ":",
      "0", "0", ":", "0", "0", " ", "2", "0", "2", "4", "]", " ", "1", "2",
      "7", ".", "0", ".", "0", ".", "1", ":", "1", "2", "3", "4", " ", "[",
      "2", "0", "0", "]", ":", " ", "G", "E", "T", " ", "/">>

\* `[Mon Jan 1] ::1:54432 GET /`
lnAccessNoStatus ==
    <<"[", "M", "o", "n", " ", "J", "a", "n", " ", "1", "]", " ", ":", ":",
      "1", ":", "5", "4", "4", "3", "2", " ", "G", "E", "T", " ", "/">>

\* `127.0.0.1:54432 [404]: post /favicon.ico`
lnAccessNoTime ==
    <<"1", "2", "7", ".", "0", ".", "0", ".", "1", ":", "5", "4", "4", "3",
      "2", " ", "[", "4", "0", "4", "]", ":", " ", "p", "o", "s", "t", " ",
      "/", "f", "a", "v", "i", "c", "o", "n", ".", "i", "c", "o">>

\* `127.0.0.1:1 [500]: GET /a - Uncaught Error: x`
lnAccessUncaught ==
    <<"1", "2", "7", ".", "0", ".", "0", ".", "1", ":", "1", " ", "[", "5",
      "0", "0", "]", ":", " ", "G", "E", "T", " ", "/", "a", " ", "-", " ",
      "U", "n", "c", "a", "u", "g", "h", "t", " ", "E", "r", "r", "o", "r",
      ":", " ", "x">>

\* `[Mon Jan 1] PHP 8.2.0 Development Server (http://localhost:8080) started`
lnBanner ==
    <<"[", "M", "o", "n", " ", "J", "a", "n", " ", "1", "]", " ", "P", "H",
      "P", " ", "8", ".", "2", ".", "0", " ", "D", "e", "v", "e", "l", "o",
      "p", "m", "e", "n", "t", " ", "S", "e", "r", "v", "e", "r", " ", "(",
      "h", "t", "t", "p", ":", "/", "/", "l", "o", "c", "a", "l", "h", "o",
      "s", "t", ":", "8", "0", "8", "0", ")", " ", "s", "t", "a", "r", "t",
      "e", "d">>

\* `PHP Fatal error: something`
lnFatal ==
    <<"P", "H", "P", " ", "F", "a", "t", "a", "l", " ", "e", "r", "r", "o",
      "r", ":", " ", "s", "o", "m", "e", "t", "h", "i", "n", "g">>

\* `  php notice: y` with leading spaces and a trailing carriage return
lnNoticeLower ==
    <<" ", " ", "p", "h", "p", " ", "n", "o", "t", "i", "c", "e", ":", " ",
      "y", "\r">>

\* `PHP Fatal error: Uncaught Exception: PHP Deprecated: z`
lnFatalDeprecated ==
    <<"P", "H", "P", " ", "F", "a", "t", "a", "l", " ", "e", "r", "r", "o",
      "r", ":", " ", "U", "n", "c", "a", "u", "g", "h", "t", " ", "E", "x",
      "c", "e", "p", "t", "i", "o", "n", ":", " ", "P", "H", "P", " ", "D",
      "e", "p", "r", "e", "c", "a", "t", "e", "d", ":", " ", "z">>

\* `Listening on http://localhost:8080`
lnOther ==
    <<"L", "i", "s", "t", "e", "n", "i", "n", "g", " ", "o", "n", " ", "h",
      "t", "t", "p", ":", "/", "/", "l", "o", "c", "a", "l", "h", "o", "s",
      "t", ":", "8", "0", "8", "0">>

lnBlank == <<>>

SampleLines ==
    { lnAccess, lnAccessNoStatus, lnAccessNoTime, lnAccessUncaught,
      lnBanner, lnFatal, lnNoticeLower,
      lnFatalDeprecated, lnOther, lnBlank }

\* the sequences of at most n lines
RECURSIVE LineSeqs(_)
LineSeqs(n) ==
    IF n = 0 THEN { <<>> }
    ELSE LET prev == LineSeqs(n - 1) IN
         prev \cup { Append(ls, l) : ls \in prev, l \in SampleLines }

\* the text of lines as the process writes them, each ended by a newline
RECURSIVE textOf(_)
textOf(ls) == IF ls = <<>> THEN <<>> ELSE Head(ls) \o <<"\n">> \o textOf(Tail(ls))

\* the place at which a line is cut when it arrives in two chunks
CutAt == 6

\* The chunks in which the stream hands over the lines: all in one chunk, one
\* chunk a line, or one chunk a line with the first line cut in two.
Chunkings(ls) ==
    IF ls = <<>> THEN { <<>> }
    ELSE LET perLine == [i \in 1..Len(ls) |-> ls[i] \o <<"\n">>] IN
         { <<textOf(ls)>>, perLine }
         \cup ( IF Len(ls[1]) > CutAt
                THEN { << SubSeq(ls[1], 1, CutAt),
                          SubSeq(ls[1], CutAt + 1, Len(ls[1])) \o <<"\n">> >>
                       \o Tail(perLine) }
                ELSE {} )

\* The texts the PHP process writes to stdout.
StdoutTexts == { lnOther \o <<"\n">>, lnBanner \o <<"\n">>, <<"\n">> }

\* The ports startPhpServer is called with.
PhpPorts == { Num(8080), Num(9001) }

PhpInit ==
    /\ templates \in { { tPhpShim }, {} }
    /\ gwackDir = FALSE
    /\ phpPc = "idle"
    /\ phpServerPort = Undefined
    /\ phpProc = "none"
    /\ phpErrorPending = FALSE
    /\ phpReported = FALSE
    /\ phpKillCalled = FALSE
    /\ indexPhp = Undefined
    /\ stderrText = <<>> /\ stream = <<>> /\ records = <<>>
    /\ stdoutLast = Undefined
    /\ DevIdle
    /\ NotifyIdle
    /\ BuildIdle
    /\ CreateIdle
    /\ fileGwack = Undefined /\ plugin = Undefined
    /\ entryJs = Undefined /\ watched = FALSE
    /\ routesInGraph = FALSE
    /\ hook = NoHook
    /\ RouteIdle
    /\ MergeIdle
    /\ EnvIdle

\* A caller calls startPhpServer(port, cwd).
PhpCall ==
    /\ phpPc = "idle"
    /\ phpPc' = "called"
    /\ \E port \in PhpPorts : phpServerPort' = port
    /\ UNCHANGED <<phpProc, phpErrorPending, phpReported, phpKillCalled, indexPhp,
                   stderrText, stream, records, stdoutLast>>
    /\ UNCHANGED <<routeVars, mergeVars, envVars, pluginVars, devVars, toolVars>>

\* await createPhpEntryPoint(cwd) (php.js:23, 110-131): the directory .gwack
\* is made, the template read, the entry script written; without the template
\* the call rejects before anything is written, and startPhpServer with it.
PhpCreateEntryPoint ==
    /\ phpPc = "called"
    /\ gwackDir' = TRUE
    /\ LET entryPoint == createPhpEntryPoint(templates) IN
       IF entryPoint.threw
       THEN /\ phpPc' = "rejected"
            /\ UNCHANGED indexPhp
       ELSE /\ phpPc' = "entry"
            /\ indexPhp' = entryPoint.val
    /\ UNCHANGED <<phpServerPort, phpProc, phpErrorPending, phpReported, phpKillCalled,
                   stderrText, stream, records, stdoutLast>>
    /\ UNCHANGED <<fileGwack, plugin, templates, entryJs, watched, routesInGraph, hook>>
    /\ UNCHANGED <<routeVars, mergeVars, envVars, devVars, toolVars>>

\* spawn('php', phpArgs, ...) and the registration of the handlers
\* (php.js:25-73): the process launches, or it does not and an 'error' event
\* is queued for the next tick.
PhpSpawn ==
    /\ phpPc = "entry"
    /\ phpPc' = "spawned"
    /\ \E launched \in BOOLEAN :
          /\ phpProc' = IF launched THEN "running" ELSE "failed"
          /\ phpErrorPending' = ~launched
    /\ UNCHANGED <<phpServerPort, phpReported, phpKillCalled, indexPhp,
                   stderrText, stream, records, stdoutLast>>
    /\ UNCHANGED <<routeVars, mergeVars, envVars, pluginVars, devVars, toolVars>>

\* The running PHP process writes lines to stderr; the stream will hand them
\* to the 'data' handler in chunks.
PhpWrite ==
    /\ phpProc = "running"
    /\ stderrText = <<>>
    /\ \E ls \in LineSeqs(MaxLines) \ { <<>> } :
          /\ stderrText' = textOf(ls)
          /\ stream' \in Chunkings(ls)
    /\ UNCHANGED <<phpPc, phpServerPort, phpProc, phpErrorPending, phpReported,
                   phpKillCalled, indexPhp, records, stdoutLast>>
    /\ UNCHANGED <<routeVars, mergeVars, envVars, pluginVars, devVars, toolVars>>

\* An 'error' handler that makes startPhpServer reject.
PhpStartError_rejects ==
    /\ phpErrorPending
    /\ phpErrorPending' = FALSE
    /\ phpReported' = TRUE
    /\ phpPc' = "rejected"
    /\ UNCHANGED <<phpServerPort, phpProc, phpKillCalled, indexPhp,
                   stderrText, stream, records, stdoutLast>>
    /\ UNCHANGED <<routeVars, mergeVars, envVars, pluginVars, devVars, toolVars>>

\* The 'error' handler prints the failure and returns.
PhpStartError ==
    /\ phpErrorPending
    /\ phpErrorPending' = FALSE
    /\ phpReported' = TRUE
    /\ UNCHANGED <<phpPc, phpServerPort, phpProc, phpKillCalled, indexPhp,
                   stderrText, stream, records, stdoutLast>>
    /\ UNCHANGED <<routeVars, mergeVars, envVars, pluginVars, devVars, toolVars>>

\* The timer of 1000 ms fires (after the events of the next tick) and
\* startPhpServer returns the process handle.
PhpDelayElapsed ==
    /\ phpPc = "spawned"
    /\ ~phpErrorPending
    /\ phpPc' = "resolved"
    /\ UNCHANGED <<phpServerPort, phpProc, phpErrorPending, phpReported, phpKillCalled,
                   indexPhp, stderrText, stream, records, stdoutLast>>
    /\ UNCHANGED <<routeVars, mergeVars, envVars, pluginVars, devVars, toolVars>>

\* A 'data' event of stderr: the handler prints one record for every
\* non-blank line of the chunk.
StderrData ==
    /\ phpProc = "running"
    /\ stream # <<>>
    /\ records' = records \o stderrRecords(Head(stream))
    /\ stream' = Tail(stream)
    /\ UNCHANGED <<phpPc, phpServerPort, phpProc, phpErrorPending, phpReported,
                   phpKillCalled, indexPhp, stderrText, stdoutLast>>
    /\ UNCHANGED <<routeVars, mergeVars, envVars, pluginVars, devVars, toolVars>>

\* A 'data' event of stdout.
StdoutData ==
    /\ phpProc = "running"
    /\ \E text \in StdoutTexts :
          stdoutLast' = IF stdoutPrinted(text) # Undefined
                        THEN stdoutPrinted(text)
                        ELSE stdoutLast
    /\ UNCHANGED <<phpPc, phpServerPort, phpProc, phpErrorPending, phpReported,
                   phpKillCalled, indexPhp, stderrText, stream, records>>
    /\ UNCHANGED <<routeVars, mergeVars, envVars, pluginVars, devVars, toolVars>>

\* The caller terminates the process through the handle it was returned:
\* a running process ends, a process that never launched is left as it is.
PhpKill ==
    /\ phpPc = "resolved"
    /\ ~phpKillCalled
    /\ phpKillCalled' = TRUE
    /\ phpProc' = IF phpProc = "running" THEN "killed" ELSE phpProc
    /\ UNCHANGED <<phpPc, phpServerPort, phpErrorPending, phpReported, indexPhp,
                   stderrText, stream, records, stdoutLast>>
    /\ UNCHANGED <<routeVars, mergeVars, envVars, pluginVars, devVars, toolVars>>

PhpNext ==
    \/ PhpCall
    \/ PhpCreateEntryPoint
    \/ PhpSpawn
    \/ PhpStartError
    \/ PhpDelayElapsed
    \/ PhpWrite
    \/ StderrData
    \/ StdoutData
    \/ PhpKill

PhpSpec == PhpInit /\ [][PhpNext]_vars

----------------------------------------------------------------------------
(* The values devCommand resolves (build.js:125-136).                      *)

NaN == [t |-> "nan"]

\* parseInt(v) of a command-line flag: the digits at the head of the string,
\* NaN when there are none or the flag is undefined
parseInt(v) ==
    IF v.t = "str" /\ digitRun(v.s) # <<>> THEN Num(digitsValue(digitRun(v.s)))
    ELSE NaN

\* a || b
or(a, b) ==
    IF \/ a.t \in {"undefined", "null", "nan"}
       \/ (a.t = "num" /\ a.n = 0)
       \/ (a.t = "str" /\ a.s = <<>>)
    THEN b ELSE a

\* phpCfg.port || parseInt(phpPort) || 8080
resolvedPhpPortOf(phpCfgPort, phpPort) ==
    or(or(phpCfgPort, parseInt(phpPort)), Num(8080))

sLocalhost == <<"l", "o", "c", "a", "l", "h", "o", "s", "t">>

\* feCfg.host || host || 'localhost'
resolvedHostOf(feCfgHost, host) ==
    or(or(feCfgHost, host), Str(sLocalhost))

\* feCfg.port || parseInt(port) || 3000
resolvedPortOf(feCfgPort, port) ==
    or(or(feCfgPort, parseInt(port)), Num(3000))

----------------------------------------------------------------------------
(* The dev orchestrator: devCommand (build.js:112-173) starts the          *)
(* WebSocket server, loads the config, starts PHP and waits for            *)
(* startPhpServer, starts Vite, sets up the file watcher and reports       *)
(* ready; an exception in the try block ends the process with status 1.    *)

\* The flags as given on the command line: none of them, or all three.
CliFlags ==
    { [phpPort |-> Undefined, port |-> Undefined, host |-> Undefined],
      [phpPort |-> Str(<<"8", "0", "0", "0">>), port |-> Str(<<"5", "0", "0", "0">>),
       host |-> Str(<<"0", ".", "0", ".", "0", ".", "0">>)] }

\* serve.php.port of the config file: not set, a port, or 0
ServePhpPorts == { Undefined, Num(9001), Num(0) }

\* serve.frontend.port of the config file: not set, a port, or 0
ServePorts == { Undefined, Num(4000), Num(0) }

\* serve.frontend.host of the config file: not set, a name, or the empty string
ServeHosts == { Undefined, Str(<<"d", "e", "v">>), Str(<<>>) }

DevInit ==
    /\ devPc = "start" /\ devLog = <<>> /\ devExit = "none" /\ devThrew = "none"
    /\ configFile \in {"absent", "valid", "broken"}
    /\ \E flags \in CliFlags :
          /\ cliPhpPort = flags.phpPort
          /\ cliPort = flags.port
          /\ cliHost = flags.host
    /\ servePhpPort = Undefined /\ servePort = Undefined /\ serveHost = Undefined
    /\ vitePort = Undefined /\ viteHost = Undefined
    /\ wssOpen = FALSE /\ viteUp = FALSE /\ watching = FALSE
    /\ sigintHandler = FALSE
    /\ fileGwack \in IF configFile = "valid" THEN FileGwacks ELSE { Undefined }
    /\ env \in PluginEnvs
    /\ templates \in { TemplateLocations, TemplateLocations \ { tPhpShim } }
    /\ gwackDir = FALSE
    /\ routesInGraph = FALSE
    /\ plugin = Undefined
    /\ entryJs = Undefined
    /\ watched = FALSE
    /\ hook = NoHook
    /\ runtimeConfig = Undefined
    /\ viteBuild = Undefined /\ buildTopLevel = Undefined
    /\ cfgStatus = "no"
    /\ envMergedRuntime = Undefined /\ mergedBuild = Undefined
    /\ RouteIdle
    /\ MergeIdle
    /\ PhpIdle
    /\ NotifyIdle
    /\ BuildIdle
    /\ CreateIdle

\* The catch block: process.exit(1)
devCatch(step) ==
    /\ devPc' = "exited"
    /\ devExit' = "1"
    /\ devThrew' = step

\* new WebSocketServer({ port: 8081 }): the server is made, or the
\* constructor throws.
DevStartWss ==
    /\ devPc = "start"
    /\ \E ok \in BOOLEAN :
          IF ok
          THEN /\ devPc' = "wss"
               /\ wssOpen' = TRUE
               /\ devLog' = Append(devLog, "wss")
               /\ UNCHANGED <<devExit, devThrew>>
          ELSE /\ devCatch("wss")
               /\ UNCHANGED <<wssOpen, devLog>>
    /\ UNCHANGED <<devInputs, devConfig, vitePort, viteHost, viteUp, watching,
                   sigintHandler>>
    /\ UNCHANGED <<routeVars, mergeVars, envVars, pluginVars, phpVars, toolVars>>

\* loadConfig(cwd) and the sections read from it: a file whose import throws
\* is warned about and passed over, and {} stands for the configuration.
DevLoadConfig ==
    /\ devPc = "wss"
    /\ devPc' = "config"
    /\ IF configFile = "valid"
       THEN /\ servePhpPort' \in ServePhpPorts
            /\ servePort' \in ServePorts
            /\ serveHost' \in ServeHosts
            /\ UNCHANGED devLog
       ELSE /\ UNCHANGED devConfig
            /\ devLog' = IF configFile = "broken"
                         THEN Append(devLog, "configWarning") ELSE devLog
    /\ UNCHANGED <<devExit, devThrew, devInputs, vitePort, viteHost, wssOpen, viteUp,
                   watching, sigintHandler>>
    /\ UNCHANGED <<routeVars, mergeVars, envVars, pluginVars, phpVars, toolVars>>

\* The call startPhpServer(resolvedPhpPort, cwd), awaited.
DevCallPhp ==
    /\ devPc = "config"
    /\ phpPc = "idle"
    /\ devPc' = "php"
    /\ phpPc' = "called"
    /\ phpServerPort' = resolvedPhpPortOf(servePhpPort, cliPhpPort)
    /\ UNCHANGED <<phpProc, phpErrorPending, phpReported, phpKillCalled, indexPhp,
                   stderrText, stream, records, stdoutLast>>
    /\ UNCHANGED <<devLog, devExit, devThrew, devInputs, devConfig, vitePort, viteHost,
                   wssOpen, viteUp, watching, sigintHandler>>
    /\ UNCHANGED <<routeVars, mergeVars, envVars, pluginVars, toolVars>>

\* A devCommand that does not await startPhpServer.
DevPhpStarted_notAwaited ==
    /\ devPc = "php"
    /\ phpPc \in {"called", "entry", "spawned", "resolved"}
    /\ devPc' = "phpStarted"
    /\ devLog' = Append(devLog, "php")
    /\ UNCHANGED <<devExit, devThrew, devInputs, devConfig, vitePort, viteHost,
                   wssOpen, viteUp, watching, sigintHandler>>
    /\ UNCHANGED <<routeVars, mergeVars, envVars, pluginVars, phpVars, toolVars>>

\* startPhpServer returned the process handle: devCommand goes on.
DevPhpStarted ==
    /\ devPc = "php"
    /\ phpPc = "resolved"
    /\ devPc' = "phpStarted"
    /\ devLog' = Append(devLog, "php")
    /\ UNCHANGED <<devExit, devThrew, devInputs, devConfig, vitePort, viteHost,
                   wssOpen, viteUp, watching, sigintHandler>>
    /\ UNCHANGED <<routeVars, mergeVars, envVars, pluginVars, phpVars, toolVars>>

\* startPhpServer rejected: the catch block.
DevPhpRejected ==
    /\ devPc = "php"
    /\ phpPc = "rejected"
    /\ devCatch("php")
    /\ UNCHANGED <<devLog, devInputs, devConfig, vitePort, viteHost, wssOpen, viteUp,
                   watching, sigintHandler>>
    /\ UNCHANGED <<routeVars, mergeVars, envVars, pluginVars, phpVars, toolVars>>

\* The host and port are resolved and createViteConfig({ root, phpPort:
\* resolvedPhpPort, ... }) is called; when it throws, the catch block.
DevCreateViteConfig ==
    /\ devPc = "phpStarted"
    /\ viteHost' = resolvedHostOf(serveHost, cliHost)
    /\ vitePort' = resolvedPortOf(servePort, cliPort)
    /\ createViteConfigCall(phpServerPort)
    /\ IF cfgStatus' = "threw"
       THEN devCatch("viteConfig")
       ELSE devPc' = "vite" /\ UNCHANGED <<devExit, devThrew>>
    /\ UNCHANGED <<devLog, devInputs, devConfig, wssOpen, viteUp, watching,
                   sigintHandler>>
    /\ UNCHANGED <<phpVars, toolVars>>

\* A devCommand that tries the bundler again when it could not listen.
DevViteListen_retry ==
    /\ devPc = "vite"
    /\ \E ok \in BOOLEAN :
          IF ok
          THEN /\ devPc' = "listening"
               /\ viteUp' = TRUE
               /\ devLog' = Append(devLog, "vite")
               /\ UNCHANGED <<devExit, devThrew>>
          ELSE /\ devThrew' = "vite"
               /\ UNCHANGED <<devPc, devExit, viteUp, devLog>>
    /\ UNCHANGED <<devInputs, devConfig, vitePort, viteHost, wssOpen, watching,
                   sigintHandler>>
    /\ UNCHANGED <<routeVars, mergeVars, envVars, pluginVars, phpVars, toolVars>>

\* createServer(viteConfig) and viteServer.listen(...), awaited: the server
\* listens, or one of the two rejects (the port is taken) and the catch
\* block runs.
DevViteListen ==
    /\ devPc = "vite"
    /\ \E ok \in BOOLEAN :
          IF ok
          THEN /\ devPc' = "listening"
               /\ viteUp' = TRUE
               /\ devLog' = Append(devLog, "vite")
               /\ UNCHANGED <<devExit, devThrew>>
          ELSE /\ devCatch("vite")
               /\ UNCHANGED <<viteUp, devLog>>
    /\ UNCHANGED <<devInputs, devConfig, vitePort, viteHost, wssOpen, watching,
                   sigintHandler>>
    /\ UNCHANGED <<routeVars, mergeVars, envVars, pluginVars, phpVars, toolVars>>

\* setupFileWatchers(cwd, wss): the watcher is set up, or the call throws.
DevSetupFileWatchers ==
    /\ devPc = "listening"
    /\ \E ok \in BOOLEAN :
          IF ok
          THEN /\ devPc' = "watching"
               /\ watching' = TRUE
               /\ devLog' = Append(devLog, "watcher")
               /\ UNCHANGED <<devExit, devThrew>>
          ELSE /\ devCatch("watcher")
               /\ UNCHANGED <<watching, devLog>>
    /\ UNCHANGED <<devInputs, devConfig, vitePort, viteHost, wssOpen, viteUp,
                   sigintHandler>>
    /\ UNCHANGED <<routeVars, mergeVars, envVars, pluginVars, phpVars, toolVars>>

\* The ready message and process.on('SIGINT', ...)
DevReady ==
    /\ devPc = "watching"
    /\ devPc' = "ready"
    /\ devLog' = Append(devLog, "ready")
    /\ sigintHandler' = TRUE
    /\ UNCHANGED <<devExit, devThrew, devInputs, devConfig, vitePort, viteHost,
                   wssOpen, viteUp, watching>>
    /\ UNCHANGED <<routeVars, mergeVars, envVars, pluginVars, phpVars, toolVars>>

\* A handler that closes the two servers and leaves the PHP process alone.
DevSigint_noKill ==
    /\ sigintHandler
    /\ devPc # "exited"
    /\ viteUp' = FALSE
    /\ wssOpen' = FALSE
    /\ devLog' = devLog \o <<"viteClose", "wssClose">>
    /\ devPc' = "exited"
    /\ devExit' = "0"
    /\ UNCHANGED <<phpVars, toolVars>>
    /\ UNCHANGED <<devThrew, devInputs, devConfig, vitePort, viteHost, watching,
                   sigintHandler>>
    /\ UNCHANGED <<routeVars, mergeVars, envVars, pluginVars, toolVars>>

\* SIGINT with the handler registered: phpProcess.kill(), viteServer.close(),
\* wss.close(), process.exit(0). The watcher is not closed; it ends with
\* the process.
DevSigint ==
    /\ sigintHandler
    /\ devPc # "exited"
    /\ phpKillCalled' = TRUE
    /\ phpProc' = IF phpProc = "running" THEN "killed" ELSE phpProc
    /\ viteUp' = FALSE
    /\ wssOpen' = FALSE
    /\ devLog' = devLog \o <<"kill", "viteClose", "wssClose">>
    /\ devPc' = "exited"
    /\ devExit' = "0"
    /\ UNCHANGED <<phpPc, phpServerPort, phpErrorPending, phpReported, indexPhp,
                   stderrText, stream, records, stdoutLast>>
    /\ UNCHANGED <<devThrew, devInputs, devConfig, vitePort, viteHost, watching,
                   sigintHandler>>
    /\ UNCHANGED <<routeVars, mergeVars, envVars, pluginVars, toolVars>>

\* SIGINT before the handler is registered: the signal ends the process.
DevSigintNoHandler ==
    /\ ~sigintHandler
    /\ devPc \notin {"off", "exited"}
    /\ devPc' = "exited"
    /\ devExit' = "signal"
    /\ UNCHANGED <<devLog, devThrew, devInputs, devConfig, vitePort, viteHost, wssOpen,
                   viteUp, watching, sigintHandler>>
    /\ UNCHANGED <<routeVars, mergeVars, envVars, pluginVars, phpVars, toolVars>>

\* The steps of startPhpServer run while devCommand awaits it; the handlers
\* of the child process run as long as the process lives.
DevPhpStep ==
    /\ devPc # "exited"
    /\ \/ PhpCreateEntryPoint
       \/ PhpSpawn
       \/ PhpStartError
       \/ PhpDelayElapsed

DevNext ==
    \/ DevStartWss
    \/ DevLoadConfig
    \/ DevCallPhp
    \/ DevPhpStep
    \/ DevPhpStarted
    \/ DevPhpRejected
    \/ DevCreateViteConfig
    \/ DevViteListen
    \/ DevSetupFileWatchers
    \/ DevReady
    \/ DevSigint
    \/ DevSigintNoHandler

DevSpec == DevInit /\ [][DevNext]_vars

----------------------------------------------------------------------------
(* The file watcher of setupFileWatchers (build.js:181-216), the clients   *)
(* of the WebSocket server, and the frontend's onmessage handler           *)
(* (entry-point.js:36-47).                                                 *)

sType == <<"t", "y", "p", "e">>
sPath == <<"p", "a", "t", "h">>
sPhpReload == <<"p", "h", "p", "-", "r", "e", "l", "o", "a", "d">>
sRouteAdded == <<"r", "o", "u", "t", "e", "-", "a", "d", "d", "e", "d">>

\* PHP files under server/
fServerA == <<"s", "e", "r", "v", "e", "r", "/", "a", ".", "p", "h", "p">>
fServerApiB ==
    <<"s", "e", "r", "v", "e", "r", "/", "a", "p", "i", "/", "b", ".", "p", "h", "p">>

WatchedFiles == { fServerA, fServerApiB }

\* The watched files that exist: the one there when the watcher started
\* (ignoreInitial: true, no event for it) and the ones added since.
ExistingFiles(events) ==
    {fServerA} \cup { events[i].file : i \in { j \in 1..Len(events) : events[j].kind = "add" } }

\* JSON.stringify({ type: 'php-reload', path: path })
phpReloadMessage(file) ==
    JSONstringify(Obj(sType :> Str(sPhpReload) @@ sPath :> Str(file)))

\* JSON.stringify({ type: 'route-added', path: path })
routeAddedMessage(file) ==
    JSONstringify(Obj(sType :> Str(sRouteAdded) @@ sPath :> Str(file)))

\* wss.clients.forEach(client => { if (client.readyState === 1) ... }): the
\* clients the message is sent to
openClients(clients) == { c \in ClientIds : clients[c] = "open" }

\* ws.onmessage: JSON.parse(event.data), then a reload when data.type is
\* 'php-reload' and nothing otherwise
frontendReaction(text) ==
    LET data == JSONparse(text).v IN
    IF Prop(data, sType) = Str(sPhpReload) THEN "reload" ELSE "none"

NotifyInit ==
    /\ wsClients = [c \in ClientIds |-> "closed"]
    /\ wsInbox = [c \in ClientIds |-> <<>>]
    /\ wsSent = <<>> /\ watchEvents = <<>>
    /\ handled = [c \in ClientIds |-> <<>>]
    /\ devPc = "ready" /\ devExit = "none" /\ devThrew = "none"
    /\ devLog = <<"wss", "php", "vite", "watcher", "ready">>
    /\ wssOpen = TRUE /\ viteUp = TRUE /\ watching = TRUE /\ sigintHandler = TRUE
    /\ configFile = "absent"
    /\ cliPhpPort = Undefined /\ cliPort = Undefined /\ cliHost = Undefined
    /\ servePhpPort = Undefined /\ servePort = Undefined /\ serveHost = Undefined
    /\ vitePort = Num(3000) /\ viteHost = Str(sLocalhost)
    /\ RouteIdle
    /\ MergeIdle
    /\ EnvIdle
    /\ PluginIdle
    /\ PhpIdle
    /\ BuildIdle
    /\ CreateIdle

\* new WebSocket('ws://localhost:8081') in a page
ClientConnect ==
    /\ wssOpen
    /\ \E c \in ClientIds :
          /\ wsClients[c] = "closed"
          /\ wsClients' = [wsClients EXCEPT ![c] = "connecting"]
    /\ UNCHANGED <<wsInbox, wsSent, watchEvents, handled>>
    /\ UNCHANGED <<routeVars, mergeVars, envVars, pluginVars, phpVars, devVars,
                   buildVars, createVars>>

\* The connection is established.
ClientOpen ==
    /\ \E c \in ClientIds :
          /\ wsClients[c] = "connecting"
          /\ wsClients' = [wsClients EXCEPT ![c] = "open"]
    /\ UNCHANGED <<wsInbox, wsSent, watchEvents, handled>>
    /\ UNCHANGED <<routeVars, mergeVars, envVars, pluginVars, phpVars, devVars,
                   buildVars, createVars>>

\* The page is closed.
ClientClose ==
    /\ \E c \in ClientIds :
          /\ wsClients[c] = "open"
          /\ wsClients' = [wsClients EXCEPT ![c] = "closed"]
          /\ wsInbox' = [wsInbox EXCEPT ![c] = <<>>]
    /\ UNCHANGED <<wsSent, watchEvents, handled>>
    /\ UNCHANGED <<routeVars, mergeVars, envVars, pluginVars, phpVars, devVars,
                   buildVars, createVars>>

\* The sending of one text to every open client, for the event just noted.
broadcast(kind, file, text) ==
    LET to == SetToSeq(openClients(wsClients))
        ev == Len(watchEvents) + 1
    IN  /\ watchEvents' = Append(watchEvents,
                                 [kind |-> kind, file |-> file,
                                  open |-> openClients(wsClients)])
        /\ wsSent' = wsSent \o [i \in 1..Len(to) |->
                                  [ev |-> ev, to |-> to[i], text |-> text]]
        /\ wsInbox' = [c \in ClientIds |->
                         IF wsClients[c] = "open"
                         THEN Append(wsInbox[c], text) ELSE wsInbox[c]]

\* phpWatcher.on('change', ...)
WatcherChange ==
    /\ watching
    /\ Len(watchEvents) < MaxEvents
    /\ \E file \in ExistingFiles(watchEvents) :
          broadcast("change", file, phpReloadMessage(file))
    /\ UNCHANGED <<wsClients, handled>>
    /\ UNCHANGED <<routeVars, mergeVars, envVars, pluginVars, phpVars, devVars,
                   buildVars, createVars>>

\* An 'add' handler that tells the clients to reload.
WatcherAdd_asReload ==
    /\ watching
    /\ Len(watchEvents) < MaxEvents
    /\ \E file \in WatchedFiles \ ExistingFiles(watchEvents) :
          broadcast("add", file, phpReloadMessage(file))
    /\ UNCHANGED <<wsClients, handled>>
    /\ UNCHANGED <<routeVars, mergeVars, envVars, pluginVars, phpVars, devVars,
                   buildVars, createVars>>

\* phpWatcher.on('add', ...)
WatcherAdd ==
    /\ watching
    /\ Len(watchEvents) < MaxEvents
    /\ \E file \in WatchedFiles \ ExistingFiles(watchEvents) :
          broadcast("add", file, routeAddedMessage(file))
    /\ UNCHANGED <<wsClients, handled>>
    /\ UNCHANGED <<routeVars, mergeVars, envVars, pluginVars, phpVars, devVars,
                   buildVars, createVars>>

\* ws.onmessage in a page: window.location.reload() ends the page and its
\* socket.
FrontendOnMessage ==
    /\ \E c \in ClientIds :
          /\ wsClients[c] = "open"
          /\ wsInbox[c] # <<>>
          /\ LET text   == Head(wsInbox[c])
                 action == frontendReaction(text)
             IN  /\ handled' = [handled EXCEPT
                                   ![c] = Append(@, [text |-> text, action |-> action])]
                 /\ IF action = "reload"
                    THEN /\ wsClients' = [wsClients EXCEPT ![c] = "closed"]
                         /\ wsInbox' = [wsInbox EXCEPT ![c] = <<>>]
                    ELSE /\ wsInbox' = [wsInbox EXCEPT ![c] = Tail(wsInbox[c])]
                         /\ UNCHANGED wsClients
    /\ UNCHANGED <<wsSent, watchEvents>>
    /\ UNCHANGED <<routeVars, mergeVars, envVars, pluginVars, phpVars, devVars,
                   buildVars, createVars>>

NotifyNext ==
    \/ ClientConnect
    \/ ClientOpen
    \/ ClientClose
    \/ WatcherChange
    \/ WatcherAdd
    \/ FrontendOnMessage

NotifySpec == NotifyInit /\ [][NotifyNext]_vars

----------------------------------------------------------------------------
(* The build command (create.js:195-285).  projHas is what the project     *)
(* directory holds, shimsHas the PHP entry files of the package's shims    *)
(* directory, outTree the entries of the output directory, buildsDone the  *)
(* runs that have ended.                                                   *)

ProjectEntries == { "server", "vendor", "composer.json", "composer.lock" }

ShimFiles == { "prod-index.php", "index.php" }

\* catch (error) { ...; process.exit(1) }, for a throw of the named call
buildCatch(call) ==
    /\ buildPc' = "failed"
    /\ buildExit' = "1"
    /\ buildsDone' = Append(buildsDone,
                            [had |-> projHas, ok |-> FALSE, threw |-> call,
                             tree |-> outTree'])

BuildInit ==
    /\ buildPc = "idle" /\ buildExit = "none"
    /\ projHas \in SUBSET ProjectEntries
    /\ shimsHas \in SUBSET ShimFiles
    /\ outTree = {}
    /\ buildsDone = <<>>
    /\ RouteIdle
    /\ MergeIdle
    /\ EnvIdle
    /\ PluginIdle
    /\ PhpIdle
    /\ DevIdle
    /\ NotifyIdle
    /\ CreateIdle

\* Between two runs the project gains or loses one of its two directories.
ProjectChange ==
    /\ buildPc \in {"idle", "done", "failed"}
    /\ \E e \in {"server", "vendor"} :
          projHas' = IF e \in projHas THEN projHas \ {e} ELSE projHas \cup {e}
    /\ UNCHANGED <<buildPc, buildExit, shimsHas, outTree, buildsDone>>
    /\ UNCHANGED <<routeVars, mergeVars, envVars, pluginVars, phpVars, devVars,
                   notifyVars, createVars>>

\* A clean step that leaves the previous output where it is.
BuildCommandClean_keepsOld ==
    /\ buildPc \in {"idle", "done", "failed"}
    /\ Len(buildsDone) < MaxBuilds
    /\ buildExit' = "none"
    /\ outTree' = outTree \cup {"public"}
    /\ buildPc' = "cleaned"
    /\ UNCHANGED <<projHas, shimsHas, buildsDone>>
    /\ UNCHANGED <<routeVars, mergeVars, envVars, pluginVars, phpVars, devVars,
                   notifyVars, createVars>>

\* rm(baseOutDir, { recursive: true, force: true }), then
\* mkdir(clientOutDir, { recursive: true }); a rejection of rm leaves the
\* tree as it was.
BuildCommandClean ==
    /\ buildPc \in {"idle", "done", "failed"}
    /\ Len(buildsDone) < MaxBuilds
    /\ \/ /\ outTree' = {"public"}
          /\ buildPc' = "cleaned"
          /\ buildExit' = "none"
          /\ UNCHANGED buildsDone
       \/ /\ outTree' = outTree
          /\ buildCatch("rm")
    /\ UNCHANGED <<projHas, shimsHas>>
    /\ UNCHANGED <<routeVars, mergeVars, envVars, pluginVars, phpVars, devVars,
                   notifyVars, createVars>>

\* createViteConfig({...}) and await build(viteConfig): the client bundle is
\* written under public/, or one of the two throws.
BuildCommandVite ==
    /\ buildPc = "cleaned"
    /\ \/ /\ buildPc' = "built"
          /\ UNCHANGED <<outTree, buildExit, buildsDone>>
       \/ /\ outTree' = outTree
          /\ buildCatch("build")
    /\ UNCHANGED <<projHas, shimsHas>>
    /\ UNCHANGED <<routeVars, mergeVars, envVars, pluginVars, phpVars, devVars,
                   notifyVars, createVars>>

\* if (existsSync(projectServerDir)) { mkdir; cp } else a warning
BuildCommandCopyServer ==
    /\ buildPc = "built"
    /\ outTree' = IF "server" \in projHas THEN outTree \cup {"server"} ELSE outTree
    /\ buildPc' = "server"
    /\ UNCHANGED <<buildExit, projHas, shimsHas, buildsDone>>
    /\ UNCHANGED <<routeVars, mergeVars, envVars, pluginVars, phpVars, devVars,
                   notifyVars, createVars>>

\* if (existsSync(projectVendorDir)) { mkdir; cp } else a warning
BuildCommandCopyVendor ==
    /\ buildPc = "server"
    /\ outTree' = IF "vendor" \in projHas THEN outTree \cup {"vendor"} ELSE outTree
    /\ buildPc' = "vendor"
    /\ UNCHANGED <<buildExit, projHas, shimsHas, buildsDone>>
    /\ UNCHANGED <<routeVars, mergeVars, envVars, pluginVars, phpVars, devVars,
                   notifyVars, createVars>>

\* for (const f of ['composer.json', 'composer.lock']) if (existsSync(src)) cp
BuildCommandCopyComposer ==
    /\ buildPc = "vendor"
    /\ outTree' = outTree \cup (projHas \cap {"composer.json", "composer.lock"})
    /\ buildPc' = "composer"
    /\ UNCHANGED <<buildExit, projHas, shimsHas, buildsDone>>
    /\ UNCHANGED <<routeVars, mergeVars, envVars, pluginVars, phpVars, devVars,
                   notifyVars, createVars>>

\* useShim is prod-index.php when it exists and index.php otherwise;
\* cp(useShim, join(baseOutDir, 'index.php')) rejects when the file is not
\* there.  After it the success message is printed and the command returns.
BuildCommandCopyShim ==
    /\ buildPc = "composer"
    /\ LET useShim == IF "prod-index.php" \in shimsHas
                      THEN "prod-index.php" ELSE "index.php"
       IN  IF useShim \in shimsHas
           THEN /\ outTree' = outTree \cup {"index.php"}
                /\ buildPc' = "done"
                /\ buildsDone' = Append(buildsDone,
                                        [had |-> projHas, ok |-> TRUE,
                                         threw |-> "none", tree |-> outTree'])
                /\ UNCHANGED buildExit
           ELSE /\ outTree' = outTree
                /\ buildCatch("cp")
    /\ UNCHANGED <<projHas, shimsHas>>
    /\ UNCHANGED <<routeVars, mergeVars, envVars, pluginVars, phpVars, devVars,
                   notifyVars, createVars>>

BuildCommandNext ==
    \/ ProjectChange
    \/ BuildCommandClean
    \/ BuildCommandVite
    \/ BuildCommandCopyServer
    \/ BuildCommandCopyVendor
    \/ BuildCommandCopyComposer
    \/ BuildCommandCopyShim

BuildCommandSpec == BuildInit /\ [][BuildCommandNext]_vars

----------------------------------------------------------------------------
(* The create command (create.js:20-172).  createShims is the set of       *)
(* template files that exist, each at one of the two places looked at;     *)
(* projFiles the files written into the new project directory.             *)

\* The templates in the order createBasicFiles reads them, and the file each
\* is written to.
BasicTemplates == <<"index-page.vue.tmpl", "gwack.config.tmpl", "index.html.tmpl">>

BasicFiles == <<"pages/index.vue", "gwack.config.js", "index.html">>

\* shimsDir and nmShimsDir
ShimPlaces == { "shimsDir", "nmShimsDir" }

FixedFiles == { "package.json", "composer.json" } \cup Range(BasicFiles)

\* existsSync at shimsDir, else at nmShimsDir, else 'Shim not found', which
\* the catch around it only logs: the text is a string exactly when the
\* template is at one of the two places
shimRead(k, shims) == \E place \in ShimPlaces : <<BasicTemplates[k], place>> \in shims

\* catch (error) { ...; process.exit(1) }
createCatch ==
    /\ createPc' = "failed"
    /\ createReport' = "failure"
    /\ createExit' = "1"

CreateInit ==
    /\ createPc = "idle" /\ createExit = "none" /\ createReport = "none"
    /\ createShims \in SUBSET (Range(BasicTemplates) \X ShimPlaces)
    /\ projFiles = {}
    /\ RouteIdle
    /\ MergeIdle
    /\ EnvIdle
    /\ PluginIdle
    /\ PhpIdle
    /\ DevIdle
    /\ NotifyIdle
    /\ BuildIdle

\* mkdir(projectPath) and mkdir(projectPath/pages), recursive
CreateCommandMkdir ==
    /\ createPc = "idle"
    /\ \/ /\ createPc' = "dirs"
          /\ UNCHANGED <<createExit, createReport>>
       \/ createCatch
    /\ UNCHANGED <<createShims, projFiles>>
    /\ UNCHANGED <<routeVars, mergeVars, envVars, pluginVars, phpVars, devVars,
                   notifyVars, buildVars>>

\* writeFile of package.json, then of composer.json
CreateCommandManifests ==
    /\ createPc = "dirs"
    /\ \/ /\ projFiles' = projFiles \cup {"package.json", "composer.json"}
          /\ createPc' = "manifests"
          /\ UNCHANGED <<createExit, createReport>>
       \/ /\ projFiles' = projFiles \cup {"package.json"}
          /\ createCatch
       \/ /\ UNCHANGED projFiles
          /\ createCatch
    /\ UNCHANGED createShims
    /\ UNCHANGED <<routeVars, mergeVars, envVars, pluginVars, phpVars, devVars,
                   notifyVars, buildVars>>

\* await createBasicFiles(projectPath) and what follows it: each of the three
\* files is written when its template was read; the writeFile numbered
\* failAt rejects (0: none does), which ends createCommand in its catch;
\* otherwise 'Project created successfully!' is printed.
CreateCommandBasicFiles ==
    /\ createPc = "manifests"
    /\ \E failAt \in 0..Len(BasicTemplates) :
          /\ failAt # 0 => shimRead(failAt, createShims)
          /\ projFiles' = projFiles \cup
                { BasicFiles[k] : k \in { j \in 1..Len(BasicTemplates) :
                                            /\ shimRead(j, createShims)
                                            /\ (failAt = 0 \/ j < failAt) } }
          /\ IF failAt = 0
             THEN /\ createPc' = "done"
                  /\ createReport' = "success"
                  /\ UNCHANGED createExit
             ELSE createCatch
    /\ UNCHANGED createShims
    /\ UNCHANGED <<routeVars, mergeVars, envVars, pluginVars, phpVars, devVars,
                   notifyVars, buildVars>>

CreateNext ==
    \/ CreateCommandMkdir
    \/ CreateCommandManifests
    \/ CreateCommandBasicFiles

CreateSpec == CreateInit /\ [][CreateNext]_vars

----------------------------------------------------------------------------
(* The generated sources and their templates: the plugin's generators and  *)
(* the PHP supervisor's entry script, side by side as in a dev session.    *)

TemplateInit ==
    /\ templates \in SUBSET TemplateLocations
    /\ gwackDir = FALSE
    /\ routesInGraph = TRUE
    /\ fileGwack = Undefined /\ plugin = Undefined
    /\ entryJs = Undefined /\ watched = FALSE
    /\ hook = NoHook
    /\ RouteIdle
    /\ MergeIdle
    /\ EnvIdle
    /\ PhpIdle
    /\ DevIdle
    /\ NotifyIdle
    /\ BuildIdle
    /\ CreateIdle

TemplateNext ==
    \/ DevViteConfig
    \/ BuildStart
    \/ Load
    \/ HandleHotUpdate
    \/ PhpCall
    \/ PhpCreateEntryPoint
    \/ PhpSpawn
    \/ PhpStartError
    \/ PhpDelayElapsed

TemplateSpec == TemplateInit /\ [][TemplateNext]_vars

----------------------------------------------------------------------------
(* Properties of the route discoverer.                                     *)

\* The .vue files of the tree, and the import path that identifies each.
VueFiles == { f \in files : endsWith(f[Len(f)], sVue) }

ImportOf(f) == sPages \o relative(f)

RouteIdx == 1..Len(routes)

\* The parent path of a file: '/' + segment for every directory on the way.
RECURSIVE ParentPath(_)
ParentPath(segs) ==
    IF segs = <<>> THEN <<>>
    ELSE <<"/">> \o segs[1] \o ParentPath(Tail(segs))

\* The path rule of the specification, on the directory segments and stem.
ClaimPath(f) ==
    LET segs   == SubSeq(f, 1, Len(f) - 1)
        fname  == f[Len(f)]
        stem   == SubSeq(fname, 1, Len(fname) - 4)
        parent == ParentPath(segs)
    IN  IF stem = <<"i", "n", "d", "e", "x">>
        THEN (IF segs = <<>> THEN <<"/">> ELSE parent)
        ELSE IF Len(stem) >= 2 /\ stem[1] = "[" /\ stem[Len(stem)] = "]"
        THEN parent \o <<"/", ":">> \o SubSeq(stem, 2, Len(stem) - 1)
        ELSE parent \o <<"/">> \o stem

ExamplePaths ==
    { <<"/">>,
      <<"/", "a", "b", "o", "u", "t">>,
      <<"/", "u", "s", "e", "r", "s", "/", ":", "i", "d">>,
      <<"/", "u", "s", "e", "r", "s">> }

\* C1: every .vue file under the pages directory yields exactly one route,
\* whose path is the parent path for stem `index` (`/` at the root), parent
\* path + `/:param` for `[param].vue`, parent path + `/` + stem otherwise;
\* the worked example tree yields exactly `/`, `/about`, `/users/:id`, `/users`.
Thm_C1_RoutePath ==
    loaded = "yes" =>
        /\ Len(routes) = Cardinality(VueFiles)
        /\ \A f \in VueFiles :
             \E i \in RouteIdx :
                /\ routes[i].importPath = ImportOf(f)
                /\ routes[i].path = ClaimPath(f)
        /\ (dirs = ExampleDirs /\ files = ExampleFiles) =>
             { routes[i].path : i \in RouteIdx } = ExamplePaths

Wit_C1_ExampleTree ==
    /\ loaded = "yes"
    /\ dirs = ExampleDirs
    /\ files = ExampleFiles
    /\ Len(routes) = 4
    /\ { routes[i].path : i \in RouteIdx } = ExamplePaths

\* The name rule of the specification: `/` -> `.`, one leading `.` dropped,
\* `index` when nothing is left.
RECURSIVE Dotted(_)
Dotted(s) ==
    IF s = <<>> THEN <<>>
    ELSE (IF Head(s) = "/" THEN <<".">> ELSE <<Head(s)>>) \o Dotted(Tail(s))

ClaimName(path) ==
    LET d == Dotted(path)
        t == IF d # <<>> /\ Head(d) = "." THEN Tail(d) ELSE d
    IN  IF t = <<>> THEN <<"i", "n", "d", "e", "x">> ELSE t

\* C2: every route's name is its path with `/` replaced by `.` and one
\* leading `.` removed, `index` when that is empty.
Thm_C2_RouteName ==
    loaded = "yes" =>
        \A i \in RouteIdx : routes[i].name = ClaimName(routes[i].path)

Wit_C2_Names ==
    /\ loaded = "yes"
    /\ \E i \in RouteIdx :
          /\ routes[i].path = <<"/">>
          /\ routes[i].name = <<"i", "n", "d", "e", "x">>
    /\ \E i \in RouteIdx :
          /\ routes[i].path = <<"/", "u", "s", "e", "r", "s", "/", ":", "i", "d">>
          /\ routes[i].name = <<"u", "s", "e", "r", "s", ".", ":", "i", "d">>
    /\ \E i \in RouteIdx :
          /\ routes[i].path = <<"/", "u", "s", "e", "r", "s">>
          /\ routes[i].name = nUsers

\* C3: no two routes of a returned route list have the same path.
Cex_C3_UniquePaths ==
    loaded = "yes" =>
        \A i, j \in RouteIdx : i # j => routes[i].path # routes[j].path

\* The file a page under `index` directories would be if those directories
\* were collapsed into their parents.
RECURSIVE DropIndexDirs(_)
DropIndexDirs(segs) ==
    IF segs = <<>> THEN <<>>
    ELSE (IF Head(segs) = sIndex THEN <<>> ELSE <<Head(segs)>>)
         \o DropIndexDirs(Tail(segs))

Collapsed(f) == DropIndexDirs(SubSeq(f, 1, Len(f) - 1)) \o <<f[Len(f)]>>

\* C4: a directory named `index` collapses to its parent's path: a page under
\* <parent>/index/ gets the route path it would get directly in <parent>/.
Cex_C4_IndexDirCollapses ==
    loaded = "yes" =>
        \A f \in VueFiles :
           \A i \in RouteIdx :
              routes[i].importPath = ImportOf(f) =>
                 routes[i].path = ClaimPath(Collapsed(f))

\* C5: a bracketed segment `[x]`, file stem or directory name, appears in the
\* route path as `:x`; no route path holds a literal `[` or `]`.
Cex_C5_NoBrackets ==
    loaded = "yes" =>
        \A i \in RouteIdx :
           \A k \in 1..Len(routes[i].path) :
              routes[i].path[k] \notin {"[", "]"}

EmptyArraySource ==
    << [kind |-> "open",  path |-> <<>>, name |-> <<>>, component |-> <<>>],
       [kind |-> "close", path |-> <<>>, name |-> <<>>, component |-> <<>>] >>

\* C6: with the pages directory absent, or present without any .vue file,
\* generateRoutes returns the empty list without raising, and the routes
\* module serializes to an empty array.
Thm_C6_EmptyPages ==
    (loaded # "no" /\ (<<>> \notin dirs \/ VueFiles = {})) =>
        /\ loaded = "yes"
        /\ routes = <<>>
        /\ routesModule = EmptyArraySource

Wit_C6_AbsentPagesDir ==
    /\ loaded = "yes"
    /\ <<>> \notin dirs
    /\ routes = <<>>
    /\ routesModule = EmptyArraySource

----------------------------------------------------------------------------
(* Properties of deepMerge.                                                *)

\* The kind of a value as deepMerge tells them apart.
KindOf(v) == IF isObject(v) THEN "object" ELSE IF isArray(v) THEN "array" ELSE "scalar"

\* b interposes a value of another kind between a and c: at the root or at
\* some key path all three hold, a and c are both objects or both arrays
\* while b is of a different kind.
RECURSIVE Interposes(_, _, _)
Interposes(a, b, c) ==
    \/ /\ KindOf(a) = KindOf(c)
       /\ KindOf(a) # "scalar"
       /\ KindOf(b) # KindOf(a)
    \/ /\ isObject(a) /\ isObject(b) /\ isObject(c)
       /\ \E k \in Keys(a) \cap Keys(b) \cap Keys(c) :
             Interposes(a.o[k], b.o[k], c.o[k])

BothGroupingsDone == mleft # Undefined /\ mright # Undefined

\* C8: deepMerge is associative:
\* deepMerge(deepMerge(a, b), c) = deepMerge(a, deepMerge(b, c)) for all a, b, c.
Cex_C8_Associative ==
    BothGroupingsDone => mleft = mright

\* C8 (amended): the two groupings agree whenever b does not interpose a value
\* of another kind between values of a and c that are both objects or both arrays.
Thm_C8_AssociativeSameKind ==
    (BothGroupingsDone /\ ~Interposes(ma, mb, mc)) => mleft = mright

Wit_C8_NestedGroupings ==
    /\ BothGroupingsDone
    /\ ~Interposes(ma, mb, mc)
    /\ ma = Obj(kA :> Obj(kB :> Num(1)))
    /\ mb = Obj(kA :> Obj(kC :> Num(3)) @@ kB :> Null)
    /\ mc = Obj(kA :> Obj(kB :> Arr(<<Num(1)>>)))
    /\ mleft = Obj(kA :> Obj(kB :> Arr(<<Num(1)>>) @@ kC :> Num(3)) @@ kB :> Null)
    /\ mleft = mright

----------------------------------------------------------------------------
(* Properties of the environment translation and of the precedence tiers.  *)

ServePhpPort9001 == Obj(kServe :> Obj(kPhp :> Obj(kPort :> Num(9001))))

\* C7: with an empty base and the single variable GWACK_SERVE__PHP__PORT=9001,
\* mergeEnvIntoRuntimeGwack returns { serve: { php: { port: 9001 } } }.
Cex_C7_NestedEnvKey ==
    ( /\ cfgStatus # "no"
      /\ runtimeConfig = EmptyObj
      /\ env = <<EnvVar(vServePhpPort, t9001)>> )
    => ( /\ cfgStatus = "returned"
         /\ envMergedRuntime = ServePhpPort9001 )

\* The variables of env the loop applies, by position.
Applied ==
    { i \in 1..Len(env) :
        /\ startsWith(env[i].name, sGwackPrefix)
        /\ env[i].name # vJson
        /\ envParts(env[i].name) # <<>> }

VarPath(i) == envParts(env[i].name)

Comparable(p, q) == IsPrefix(p, q) \/ IsPrefix(q, p)

\* No variable applied after variable i addresses its key, a key above or below it.
LastWord(i) ==
    \A j \in Applied : j > i => ~Comparable(VarPath(i), VarPath(j))

\* No applied variable addresses the key path p, a key above or below it.
Untouched(p) == \A j \in Applied : ~Comparable(p, VarPath(j))

\* The text of GWACK_JSON when set and not empty, and what it parses to.
HasBlob == envLookup(env, vJson).t = "str" /\ envLookup(env, vJson).s # <<>>
BlobParse == JSONparse(envLookup(env, vJson).s)
BlobObject == IF HasBlob /\ BlobParse.ok THEN BlobParse.v ELSE Undefined

\* The key paths at which a tier's object sets a value that is not an object.
RECURSIVE Leaves(_, _)
Leaves(v, prefix) ==
    IF ~isObject(v) THEN {}
    ELSE UNION { IF isObject(v.o[k])
                 THEN Leaves(v.o[k], Append(prefix, k))
                 ELSE { Append(prefix, k) }
               : k \in Keys(v) }

\* A key of vite.build that the top-level build leaves alone: the top level is
\* spread key by key, rollupOptions one level deeper.
KeptByTopLevel(p) ==
    \/ ~truthy(buildTopLevel)
    \/ p[1] \notin Keys(buildTopLevel)
    \/ /\ p[1] = kRollupOptions
       /\ Len(p) >= 2
       /\ p[2] \notin Keys(rollupOf(buildTopLevel))

\* The tiers above every other: a per-key variable over blob and base, the
\* top-level build over vite.build and the defaults, vite.build over the defaults.
TopTiersWin ==
    /\ \A i \in Applied :
          LastWord(i) => GetPath(envMergedRuntime, VarPath(i)) = coerce(env[i].value)
    /\ \A p \in Leaves(buildTopLevel, <<>>) :
          GetPath(mergedBuild, p) = GetPath(buildTopLevel, p)
    /\ \A p \in Leaves(viteBuild, <<>>) :
          KeptByTopLevel(p) => GetPath(mergedBuild, p) = GetPath(viteBuild, p)

Cex_C10_NeverRaised ==
    cfgStatus # "no" =>
        /\ cfgStatus = "returned"
        /\ isObject(envMergedRuntime)
        /\ (HasBlob /\ ~BlobParse.ok /\ Applied = {}) =>
              envMergedRuntime = runtimeConfig
        /\ \A i \in Applied :
              (LastWord(i) /\ env[i].value = tBadJson) =>
                 GetPath(envMergedRuntime, VarPath(i)) = Str(tBadJson)

----------------------------------------------------------------------------
(* Properties of the plugin's hooks.                                       *)

ConfigLoaded == hook.name = "load" /\ hook.id = idConfig /\ ~hook.threw

\* The object useRuntimeConfig() returns: the JSON text in the module, evaluated.
AccessorObject == JSONparse(hook.out.json).v

\* C11: the accessor of virtual:gwack-config returns the runtime section of the
\* config file merged with the GWACK_* overrides; a key set in the config file
\* or in the environment is present in the object returned.
Cex_C11_AccessorReturnsMergedRuntime ==
    ConfigLoaded =>
        /\ AccessorObject = mergeEnvIntoRuntimeGwack(orEmpty(fileGwack), env).res
        /\ \A p \in Leaves(fileGwack, <<>>) : GetPath(AccessorObject, p) # Undefined
        /\ \A i \in Applied : GetPath(AccessorObject, VarPath(i)) # Undefined

SyntheticIds == { idRoutes, idApp, idEntry, idConfig }

IsSourceText(v) == v.t \in { "lines", "text", "accessor" }

\* C12: for each of the four synthetic identifiers resolveId returns an id and
\* load returns generated source text (unless generating it raised); for any
\* other identifier both return undefined.
Cex_C12_FourSyntheticIds ==
    /\ hook.name = "resolveId" =>
          IF hook.id \in SyntheticIds
          THEN ~hook.threw /\ hook.out # Undefined
          ELSE ~hook.threw /\ hook.out = Undefined
    /\ hook.name = "load" =>
          IF hook.id \in SyntheticIds
          THEN hook.threw \/ IsSourceText(hook.out)
          ELSE ~hook.threw /\ hook.out = Undefined

\* A file under the pages directory.
UnderPages(file) == startsWith(file, pagesDirOf(sRoot) \o <<"/">>)

PageCreatedOrDeleted ==
    /\ UnderPages(hook.file)
    /\ endsWith(hook.file, sVue)
    /\ hook.type \in {"create", "delete"}

\* C14: a hot update that returns has returned undefined; it has rewritten
\* .gwack/entry.js exactly when a .vue file under the pages directory was
\* created or deleted, and then reloaded the routes module when the module
\* graph holds it; otherwise nothing was written and nothing reloaded.
Cex_C14_HotUpdateFrame ==
    (hook.name = "handleHotUpdate" /\ ~hook.threw) =>
        /\ hook.out = Undefined
        /\ hook.wrote = PageCreatedOrDeleted
        /\ hook.reloaded = (PageCreatedOrDeleted /\ routesInGraph)
        /\ hook.wrote => entryJs # Undefined

----------------------------------------------------------------------------
(* Properties of the generated sources.                                    *)

NoAppTemplate == templates \cap { tNmApp, tLocalApp } = {}
NoEntryTemplate == templates \cap { tNmEntry, tLocalEntry } = {}
NoPhpTemplate == tPhpShim \notin templates

\* C13: when the template of a generated source exists at none of the places
\* checked, the generating operation raises: load of the app shell or of the
\* entry point, buildStart and an update of the entry script throw and write
\* nothing, .gwack/entry.js and .gwack/index.php are never written, and
\* startPhpServer rejects without spawning PHP; a generated source that is
\* returned is the text of a template.
Thm_C13_MissingTemplateRaises ==
    /\ (NoAppTemplate /\ hook.name = "load" /\ hook.id = idApp) => hook.threw
    /\ (NoEntryTemplate /\ hook.name = "load" /\ hook.id = idEntry) => hook.threw
    /\ (NoEntryTemplate /\ hook.name = "buildStart") => hook.threw /\ ~hook.wrote
    /\ (NoEntryTemplate /\ hook.name = "handleHotUpdate") => ~hook.wrote
    /\ (NoEntryTemplate /\ hook.name = "handleHotUpdate" /\ PageCreatedOrDeleted)
          => hook.threw
    /\ NoEntryTemplate => entryJs = Undefined
    /\ NoPhpTemplate =>
          /\ indexPhp = Undefined
          /\ phpProc = "none"
          /\ phpPc \in {"idle", "called", "rejected"}
    /\ (hook.name = "load" /\ hook.id \in {idApp, idEntry} /\ ~hook.threw)
          => hook.out.t = "text"
    /\ entryJs # Undefined => entryJs.t = "text"
    /\ indexPhp # Undefined => indexPhp.t = "text"

Wit_C13_NoTemplateAnywhere ==
    /\ templates = {}
    /\ hook.name = "load" /\ hook.id = idApp /\ hook.threw
    /\ phpPc = "rejected"
    /\ gwackDir
    /\ entryJs = Undefined /\ indexPhp = Undefined

----------------------------------------------------------------------------
(* Properties of the PHP supervisor.                                       *)

HasAccessLogShape(line) ==
    withTimeAndStatus(line) \/ withTime(line) \/ noTime(line)

\* C15: every record of a line having one of the three access-log shapes is
\* in the request-log bucket, not in error or warning; the startup banner is
\* not in the request-log bucket.
Cex_C15_AccessLinesAreRequestLog ==
    \A i \in 1..Len(records) :
        /\ HasAccessLogShape(records[i].line) => records[i].bucket = "request-log"
        /\ records[i].line = lnBanner => records[i].bucket # "request-log"

\* C16: every record of a line holding an error marker is in the error bucket,
\* also when the line holds a warning marker.
Cex_C16_ErrorMarkerIsError ==
    \A i \in 1..Len(records) :
        isPhpError(records[i].line) => records[i].bucket = "error"

\* C17: once the stream has handed over all the text, the records are, in
\* order, the non-blank lines of the text, one record a line, each in the
\* bucket its own text decides.
Cex_C17_RecordsAreTheLines ==
    stream = <<>> =>
        /\ [i \in 1..Len(records) |-> records[i].line] = stderrLines(stderrText)
        /\ \A i \in 1..Len(records) :
              records[i].bucket = bucketOf(records[i].line)

\* The launch of the PHP process failed.
LaunchFailed == phpErrorPending \/ phpReported

\* C18: when the PHP process fails to launch, startPhpServer does not reject:
\* it resolves with the handle, after the failure was reported; the handle is
\* inert: the process was never running, a kill() changes nothing, nothing is
\* read from it.
Thm_C18_LaunchFailureIsReported ==
    LaunchFailed =>
        /\ phpPc \in {"spawned", "resolved"}
        /\ phpPc = "resolved" => phpReported
        /\ phpProc = "failed"
        /\ records = <<>> /\ stdoutLast = Undefined

Wit_C18_InertHandle ==
    /\ phpReported
    /\ phpPc = "resolved"
    /\ phpKillCalled
    /\ phpProc = "failed"

----------------------------------------------------------------------------
(* Properties of the dev orchestrator.                                     *)

\* C19: when the PHP process fails to launch, devCommand does not go on: it
\* stays at the awaited startPhpServer or has exited, with status 1 unless the
\* interrupt signal ended it; Vite is not started, the file watcher is not
\* set up, ready is not reported.
Cex_C19_LaunchFailureStopsDev ==
    (devPc # "off" /\ LaunchFailed) =>
        /\ devPc \in {"php", "exited"}
        /\ devExit \in {"none", "1", "signal"}
        /\ cfgStatus = "no"
        /\ ~viteUp /\ ~watching
        /\ \A i \in 1..Len(devLog) : devLog[i] \notin {"vite", "watcher", "ready"}

\* The start steps of devCommand, in the order of the source.
StartOrder == <<"wss", "php", "vite", "watcher", "ready">>

\* The start steps among what devCommand did so far.
Started == SelectSeq(devLog, LAMBDA e : e \in {"wss", "php", "vite", "watcher", "ready"})

TeardownOrder == <<"kill", "viteClose", "wssClose">>

\* The teardown steps among what devCommand did so far.
TornDown == SelectSeq(devLog, LAMBDA e : e \in {"kill", "viteClose", "wssClose"})

\* C21: a run of devCommand exits with status 0 only through the interrupt
\* handler, after ready: kill() of the PHP process, then the close of the Vite
\* server, then the close of the WebSocket server, each once, then the exit;
\* no service is left running, and nothing is torn down on any other path.
Thm_C21_InterruptTeardown ==
    /\ devExit = "0" =>
          /\ devPc = "exited"
          /\ Started = StartOrder
          /\ TornDown = TeardownOrder
          /\ SubSeq(devLog, Len(devLog) - 2, Len(devLog)) = TeardownOrder
          /\ phpKillCalled /\ phpProc # "running"
          /\ ~viteUp /\ ~wssOpen
    /\ (devPc # "off" /\ devExit # "0") =>
          /\ TornDown = <<>>
          /\ ~phpKillCalled

Wit_C21_AllFourTornDown ==
    /\ devExit = "0"
    /\ phpProc = "killed"
    /\ watching
    /\ devPc = "exited"

\* The place of a startup step in the order of the source.
StepIndex(step) ==
    CASE step = "wss" -> 1
      [] step = "php" -> 2
      [] step = "viteConfig" -> 3
      [] step = "vite" -> 3
      [] step = "watcher" -> 4

\* C22: when a startup step of devCommand raises, the process has exited with
\* status 1: the steps before it are done, no later step, ready is not
\* reported, and nothing started before is taken down (the WebSocket server
\* is not closed, the PHP process is not killed).
Thm_C22_StartupExceptionAborts ==
    devThrew # "none" =>
        /\ devPc = "exited" /\ devExit = "1"
        /\ Len(Started) = StepIndex(devThrew) - 1
        /\ ~sigintHandler
        /\ TornDown = <<>> /\ ~phpKillCalled
        /\ Len(Started) >= 1 => wssOpen
        /\ devThrew = "php" => phpPc = "rejected"

Wit_C22_BundlerPortTaken ==
    /\ devThrew = "vite"
    /\ devExit = "1"
    /\ Started = <<"wss", "php">>
    /\ wssOpen /\ ~viteUp

\* C23: once devCommand resolved the PHP port, the frontend port and the
\* frontend host, each is the value the config file sets for it when it sets
\* one, else the command-line flag when given, else the default (8080, 3000,
\* localhost).
Cex_C23_ConfigBeforeFlag ==
    (devPc # "off" /\ vitePort # Undefined) =>
        /\ phpServerPort =
              IF servePhpPort # Undefined THEN servePhpPort
              ELSE IF cliPhpPort # Undefined THEN parseInt(cliPhpPort)
              ELSE Num(8080)
        /\ vitePort =
              IF servePort # Undefined THEN servePort
              ELSE IF cliPort # Undefined THEN parseInt(cliPort)
              ELSE Num(3000)
        /\ viteHost =
              IF serveHost # Undefined THEN serveHost
              ELSE IF cliHost # Undefined THEN cliHost
              ELSE Str(sLocalhost)

\* C27: when devCommand has exited, no PHP process it spawned is running.
Cex_C27_NoPhpLeftRunning ==
    devPc = "exited" => phpProc # "running"

----------------------------------------------------------------------------
(* Further properties of the environment merge.                            *)

\* C28: a call of mergeEnvIntoRuntimeGwack leaves the caller's base object
\* as it was, at every depth.
Cex_C28_BaseUnchanged == [][runtimeConfig' = runtimeConfig]_vars

\* The enumerations of the variables of e in another order.
Reorderings(e) ==
    { [i \in 1..Len(e) |-> e[f[i]]] :
        f \in { g \in [1..Len(e) -> 1..Len(e)] :
                  \A i, j \in 1..Len(e) : g[i] = g[j] => i = j } }

\* C30: the object mergeEnvIntoRuntimeGwack returns is the one it returns
\* under every other enumeration order of the same variables.
Cex_C30_OrderIndependent ==
    [][cfgStatus' = "returned" =>
          \A e2 \in Reorderings(env) :
              LET m2 == mergeEnvIntoRuntimeGwack(runtimeConfig, e2) IN
              ~m2.threw /\ m2.res = envMergedRuntime']_vars

----------------------------------------------------------------------------
(* Further properties of the route discoverer.                             *)

\* C29: in the route list generateRoutes returned, two routes with different
\* paths have different names.
Cex_C29_NamesUnique ==
    loaded = "yes" =>
        \A i, j \in 1..Len(routes) :
            routes[i].path # routes[j].path => routes[i].name # routes[j].name

----------------------------------------------------------------------------
(* Properties of the notifier.                                             *)

\* The messages sent for the watcher event k.
SentFor(k) == { i \in 1..Len(wsSent) : wsSent[i].ev = k }

\* What a page does with a message whose type is neither of the two.
OtherTypeReaction == frontendReaction(JSONstringify(Obj(sType :> Str(sPath))))

\* C26: every watcher event has exactly one message for each client open at
\* that moment and none for any other; the message parses to type php-reload
\* for a change and route-added for an add, with the path of the file; a
\* frontend reloads the page for php-reload and does nothing for route-added
\* or another type.
Thm_C26_OneMessagePerEvent ==
    /\ \A k \in 1..Len(watchEvents) :
          /\ Cardinality(SentFor(k)) = Cardinality(watchEvents[k].open)
          /\ { wsSent[i].to : i \in SentFor(k) } = watchEvents[k].open
          /\ Cardinality({ wsSent[i].text : i \in SentFor(k) }) <= 1
          /\ \A text \in { wsSent[i].text : i \in SentFor(k) } :
                JSONparse(text).v =
                    Obj(sType :> Str(IF watchEvents[k].kind = "change"
                                     THEN sPhpReload ELSE sRouteAdded)
                        @@ sPath :> Str(watchEvents[k].file))
    /\ \A i \in 1..Len(wsSent) : wsSent[i].ev \in 1..Len(watchEvents)
    /\ \A c \in ClientIds : \A i \in 1..Len(handled[c]) :
          \E j \in 1..Len(wsSent) :
              /\ wsSent[j].to = c
              /\ wsSent[j].text = handled[c][i].text
              /\ (handled[c][i].action = "reload")
                    = (watchEvents[wsSent[j].ev].kind = "change")
    /\ OtherTypeReaction = "none"

Wit_C26_BothKindsHandled ==
    /\ Len(watchEvents) = 2
    /\ \E k \in 1..2 : watchEvents[k].kind = "add" /\ watchEvents[k].open = ClientIds
    /\ \E c, d \in ClientIds :
          /\ \E i \in 1..Len(handled[c]) : handled[c][i].action = "reload"
          /\ \E j \in 1..Len(handled[d]) : handled[d][j].action = "none"

----------------------------------------------------------------------------
(* Properties of the build command.                                        *)

\* C24: a run of the build command on a project without server/ is not made
\* to fail by that, and the output tree it leaves has no server/, whatever
\* runs went before it into the same output directory; the same for
\* vendor/.  A run ends with exit status 1 only when rm, the bundler or the
\* copy of the PHP entry file throws.
Thm_C24_MissingDirsOmitted ==
    /\ \A i \in 1..Len(buildsDone) :
          LET b == buildsDone[i] IN
          /\ \A d \in {"server", "vendor"} :
                (b.ok /\ d \notin b.had) => d \notin b.tree
          /\ \A d \in {"server", "vendor"} :
                (b.ok /\ d \in b.had) => d \in b.tree
          /\ b.ok = (b.threw = "none")
          /\ b.threw \in {"none", "rm", "build", "cp"}
    /\ (buildPc \in {"server", "vendor", "composer"}) =>
          ("server" \in outTree) = ("server" \in projHas)
    /\ (buildPc \in {"vendor", "composer"}) =>
          ("vendor" \in outTree) = ("vendor" \in projHas)
    /\ (buildPc = "done") => (buildExit = "none" /\ buildsDone[Len(buildsDone)].ok)
    /\ (buildPc = "composer" /\ shimsHas # {}) => ENABLED BuildCommandCopyShim

Wit_C24_ServerGoneAfterCopy ==
    /\ Len(buildsDone) = 2
    /\ buildsDone[1].ok /\ "server" \in buildsDone[1].tree
    /\ "vendor" \in buildsDone[1].tree
    /\ buildsDone[2].ok /\ buildsDone[2].had = {}
    /\ buildsDone[2].tree = {"public", "index.php"}
    /\ buildPc = "done" /\ buildExit = "none"

----------------------------------------------------------------------------
(* Properties of the create command.                                       *)

\* C25: the create command reports success only when all five files of the
\* new project have been written; otherwise it reports a failure and ends
\* with exit status 1.
Cex_C25_SuccessMeansAllFiles ==
    /\ createReport = "success" => FixedFiles \subseteq projFiles
    /\ createReport = "failure" <=> createExit = "1"
    /\ createPc \in {"done", "failed"} => createReport # "none"

====
